---- MODULE Spec2Model ----
(***************************************************************************)
(* Backpack trading bot: the grid strategy (backpack_grid_strategy.py),    *)
(* the request helpers (asset_manager.py, intelligent_points_farming.py,   *)
(* backpack_token_manager.py), the asset top-up (asset_manager.py) and the *)
(* token liquidation (backpack_token_manager.py).                          *)
(*                                                                         *)
(* Units.  The code computes in floating point; the model computes the     *)
(* same expressions exactly, in integers:                                  *)
(*   - a grid price is a number of 1/1000 USDC (125000 is 125.00 USDC);    *)
(*   - grid_spacing is a number of 1/GridSpacingDen (4 is 0.004);          *)
(*   - a grid quantity is a number of 1/10000 SOL (500 is 0.05 SOL);       *)
(*   - a grid USDC balance is a number of 1/10^7 USDC, the unit of         *)
(*     price * quantity; a SOL balance is in the unit of a quantity.       *)
(* Ticker prices are multiples of 0.25 USDC, so that every grid level      *)
(* base_price * (1 +- grid_spacing * i) is a whole number of 1/1000 USDC.  *)
(***************************************************************************)
EXTENDS Integers, Sequences, FiniteSets, TLC

(***************************************************************************)
(* Bounds of the model.                                                    *)
(***************************************************************************)
MaxPriceSteps == 1      \* ticker prices 125.00 + 0.25 k, k in 0..MaxPriceSteps
MaxOpenOrders == 2      \* open orders the exchange reports in one reply
MaxCalcPrice == 5       \* calculator spec: base prices 1.00 k, k in 1..MaxCalcPrice
MaxCalcSpacing == 4     \* calculator spec: grid_spacing in 1..MaxCalcSpacing (1/1000)
MaxCalcLevels == 5      \* calculator spec: max_grid_levels in 0..MaxCalcLevels
MaxRetries == 3         \* max_retries argument ranges over 0..MaxRetries

(***************************************************************************)
(* Program constants.                                                      *)
(***************************************************************************)
GridSpacingDen == 1000      \* grid_spacing = 0.004 = DefaultGridSpacing / GridSpacingDen
DefaultGridSpacing == 4
DefaultGridLevels == 5      \* max_grid_levels
InitialQuantity == 500      \* initial_quantity = 0.05 SOL

VARIABLES
    \* BackpackGridStrategy fields
    grid_spacing, max_grid_levels, current_price, grid_prices, grid_orders,
    is_running,
    \* the call that has just returned: operation, inputs, requests, result
    trace,
    \* MultiAccountPointsFarmer: config.accounts, the thread that runs
    \* run_multi_account_farming, its ThreadPoolExecutor, the pool's threads,
    \* self.account_farmers, and which thread has touched which object
    accounts, main, executor, workers, account_farmers, accesses,
    \* IntelligentPointsFarmer.initial_balance
    initial_balance,
    \* the thread that runs IntelligentPointsFarmer.run_24h_farming, or
    \* run_single_account_concurrent for one account
    loop

farm_vars == <<accounts, main, executor, workers, account_farmers, accesses>>

\* what a call into one strategy or one request helper leaves alone
rest_vars == <<farm_vars, initial_balance, loop>>

\* what a step of the multi-account run leaves alone
grid_vars == <<grid_spacing, max_grid_levels, current_price, grid_prices,
               grid_orders, is_running, trace, initial_balance, loop>>

vars == <<grid_spacing, max_grid_levels, current_price, grid_prices,
          grid_orders, is_running, trace, farm_vars, initial_balance, loop>>

(***************************************************************************)
(* Generic helpers.                                                        *)
(***************************************************************************)
Abs(x) == IF x < 0 THEN -x ELSE x

Range(s) == {s[i] : i \in 1..Len(s)}

\* dict with no key
EmptyDict == [k \in {} |-> 0]

\* d[k] = v on a Python dict
DictSet(d, k, v) == [x \in (DOMAIN d) \cup {k} |-> IF x = k THEN v ELSE d[x]]

RECURSIVE InsertSorted(_, _)
InsertSorted(s, x) ==
    IF s = <<>> THEN <<x>>
    ELSE IF x < Head(s) THEN <<x>> \o s
    ELSE <<Head(s)>> \o InsertSorted(Tail(s), x)

\* sorted(list): ascending, stable
RECURSIVE Sorted(_)
Sorted(s) == IF s = <<>> THEN <<>> ELSE InsertSorted(Sorted(Tail(s)), Head(s))

\* round half to even of n / d, d > 0, n >= 0
RoundDiv(n, d) ==
    LET q == n \div d
        r == n % d
    IN  IF 2 * r < d THEN q
        ELSE IF 2 * r > d THEN q + 1
        ELSE IF q % 2 = 0 THEN q ELSE q + 1

(***************************************************************************)
(* BackpackGridStrategy: the object and its constructor.                   *)
(***************************************************************************)
Self ==
    [grid_spacing |-> grid_spacing, max_grid_levels |-> max_grid_levels,
     current_price |-> current_price, grid_prices |-> grid_prices,
     grid_orders |-> grid_orders, is_running |-> is_running]

\* __init__ with the given grid parameters
NewStrategy(spacing, levels) ==
    [grid_spacing |-> spacing, max_grid_levels |-> levels,
     current_price |-> 0, grid_prices |-> <<>>,
     grid_orders |-> EmptyDict, is_running |-> FALSE]

NoCall ==
    [op |-> "none", in |-> <<>>, log |-> <<>>, levels |-> <<>>, ret |-> <<>>,
     path |-> <<>>]

(***************************************************************************)
(* calculate_grid_prices                                                   *)
(***************************************************************************)
BuyPrice(self, base_price, i) ==
    (base_price * (GridSpacingDen - self.grid_spacing * i)) \div GridSpacingDen

SellPrice(self, base_price, i) ==
    (base_price * (GridSpacingDen + self.grid_spacing * i)) \div GridSpacingDen

\* the list is returned as the loops fill it, the sort forgotten
CalculateGridPricesUnsorted(self, base_price) ==
    LET buys  == [i \in 1..self.max_grid_levels |-> BuyPrice(self, base_price, i)]
        sells == [i \in 1..self.max_grid_levels |-> SellPrice(self, base_price, i)]
    IN  [self |-> self, ret |-> buys \o sells]

\* the levels are collected in self.grid_prices instead of a local list
CalculateGridPricesStateful(self, base_price) ==
    LET buys  == [i \in 1..self.max_grid_levels |-> BuyPrice(self, base_price, i)]
        sells == [i \in 1..self.max_grid_levels |-> SellPrice(self, base_price, i)]
        all   == Sorted(self.grid_prices \o buys \o sells)
    IN  [self |-> [self EXCEPT !.grid_prices = all], ret |-> all]

\* returns the object (which the method leaves alone) and the list
CalculateGridPrices(self, base_price) ==
    LET buys  == [i \in 1..self.max_grid_levels |-> BuyPrice(self, base_price, i)]
        sells == [i \in 1..self.max_grid_levels |-> SellPrice(self, base_price, i)]
    IN  [self |-> self, ret |-> Sorted(buys \o sells)]

(***************************************************************************)
(* The api_client of the strategy is the IntelligentPointsFarmer           *)
(* (intelligent_points_farming.py:121).  A request of the strategy is one  *)
(* call of its _make_request; the strategy sees only the call's result.    *)
(***************************************************************************)
\* the verb IntelligentPointsFarmer._make_request puts on the wire
FarmerVerb(method) == IF method \in {"GET", "get", "Get"} THEN "GET" ELSE "POST"

\* the headers of the farmer's session (lines 72-75), the names of the only
\* headers its _make_request sends: it passes none of its own to session.get
\* and session.post and signs nothing
FarmerSessionHeaders == {"Content-Type", "X-API-Key"}

Req(method, endpoint, operation, id, side, price, quantity) ==
    [method |-> method, verb |-> FarmerVerb(method), endpoint |-> endpoint,
     operation |-> operation, id |-> id, side |-> side, price |-> price,
     quantity |-> quantity, headers |-> FarmerSessionHeaders]

\* results of the ticker, balance, open-orders and order calls; ok = FALSE is
\* the failure sentinel None (or a reply without the field the code reads)
Prices == {125000 + 250 * k : k \in 0..MaxPriceSteps}

NoTicker == [ok |-> FALSE, lastPrice |-> 0]

TickerResults == {NoTicker} \cup {[ok |-> TRUE, lastPrice |-> p] : p \in Prices}

NoBalance == [ok |-> FALSE, SOL |-> 0, USDC |-> 0]

\* SOL: none, every sell; USDC: none, one buy, every buy
BalanceResults ==
    {NoBalance} \cup
    {[ok |-> TRUE, SOL |-> s, USDC |-> u] :
        s \in {0, 20 * InitialQuantity},
        u \in {0, 125000 * InitialQuantity, 1000000000}}

\* an order of the open-orders reply: with an 'id' field or without one
OpenOrder(k, has_id) == [has_id |-> has_id, id |-> IF has_id THEN 70 + k ELSE 0]

NoOpenOrders == [ok |-> FALSE, orders |-> <<>>]

OpenOrdersResults ==
    {NoOpenOrders} \cup
    {[ok |-> TRUE, orders |-> [k \in DOMAIN f |-> OpenOrder(k, f[k])]] :
        f \in UNION {[1..n -> BOOLEAN] : n \in 0..MaxOpenOrders}}

\* the order id the exchange gives the order placed for the k-th level
ExchangeOrderId(k) == 100 + k

(***************************************************************************)
(* get_current_price, get_account_balance, get_open_orders                 *)
(***************************************************************************)
TickerReq == Req("GET", "/api/v1/ticker", "getTicker", 0, "", 0, 0)

GetCurrentPrice(ticker) == IF ticker.ok THEN ticker.lastPrice ELSE 0

BalanceReq == Req("GET", "/api/v1/capital", "getBalance", 0, "", 0, 0)

GetAccountBalance(balance) ==
    IF balance.ok THEN [SOL |-> balance.SOL, USDC |-> balance.USDC]
    ELSE [SOL |-> 0, USDC |-> 0]

OpenOrdersReq == Req("GET", "/api/v1/orders", "getOpenOrders", 0, "", 0, 0)

GetOpenOrders(open) == IF open.ok THEN open.orders ELSE <<>>

(***************************************************************************)
(* cancel_order, clear_all_orders                                          *)
(***************************************************************************)
\* the result of a cancel is only logged
CancelReq(order_id) ==
    Req("DELETE", "/api/v1/order/{order_id}", "cancelOrder", order_id, "", 0, 0)

RECURSIVE CancelEach(_)
CancelEach(orders) ==
    IF orders = <<>> THEN <<>>
    ELSE (IF Head(orders).has_id THEN <<CancelReq(Head(orders).id)>> ELSE <<>>)
         \o CancelEach(Tail(orders))

\* the order map is left as it is
ClearAllOrdersKeepMap(self, open) ==
    [self |-> self,
     log  |-> <<OpenOrdersReq>> \o CancelEach(GetOpenOrders(open))]

ClearAllOrders(self, open) ==
    [self |-> [self EXCEPT !.grid_orders = EmptyDict],
     log  |-> <<OpenOrdersReq>> \o CancelEach(GetOpenOrders(open))]

(***************************************************************************)
(* place_grid_order                                                        *)
(***************************************************************************)
\* round(price, 2): to a whole number of cents, still in 1/1000 USDC
RoundPrice(price) == 10 * RoundDiv(price, 10)

\* round(quantity, 4): a quantity of the model has 4 decimals already
RoundQuantity(quantity) == quantity

PlaceReq(side, price, quantity) ==
    Req("POST", "/api/v1/order", "orderExecute", 0, side,
        RoundPrice(price), RoundQuantity(quantity))

\* refused = the reply carries neither 'orderId' nor 'id', or there is none
PlaceGridOrder(side, price, quantity, k, refused) ==
    [log |-> <<PlaceReq(side, price, quantity)>>,
     ret |-> IF refused THEN 0 ELSE ExchangeOrderId(k)]

(***************************************************************************)
(* initialize_grid                                                         *)
(***************************************************************************)
\* the sides exchanged
LevelIsBuySwapped(self, price) == price > self.current_price

\* a level below the reference price is a buy, any other a sell
LevelIsBuy(self, price) == price < self.current_price

\* a sell is checked against the USDC balance, as a buy is
AffordableInUsdc(isBuy, usdc_balance, sol_balance, price) ==
    usdc_balance >= price * InitialQuantity

\* no balance check
AffordableAlways(isBuy, usdc_balance, sol_balance, price) == TRUE

\* the balance checks of lines 204 and 212
Affordable(isBuy, usdc_balance, sol_balance, price) ==
    IF isBuy THEN usdc_balance >= price * InitialQuantity
    ELSE sol_balance >= InitialQuantity

\* the loop over self.grid_prices, from the k-th level on
RECURSIVE PlaceLevels(_, _, _, _)
PlaceLevels(self, k, fail, acc) ==
    IF k > Len(self.grid_prices) THEN acc
    ELSE
      LET price == self.grid_prices[k]
          isBuy == LevelIsBuy(self, price)
          cost  == price * InitialQuantity
          affordable == Affordable(isBuy, acc.usdc_balance, acc.sol_balance, price)
          r == PlaceGridOrder(IF isBuy THEN "buy" ELSE "sell", price,
                              InitialQuantity, k, k \in fail)
          placed == affordable /\ r.ret # 0
          next ==
            [usdc_balance |-> IF placed /\ isBuy THEN acc.usdc_balance - cost
                              ELSE acc.usdc_balance,
             sol_balance  |-> IF placed /\ ~isBuy
                              THEN acc.sol_balance - InitialQuantity
                              ELSE acc.sol_balance,
             grid_orders  |-> IF placed THEN DictSet(acc.grid_orders, price, r.ret)
                              ELSE acc.grid_orders,
             orders_placed |-> IF placed THEN acc.orders_placed + 1
                               ELSE acc.orders_placed,
             log |-> IF affordable THEN acc.log \o r.log ELSE acc.log,
             levels |-> Append(acc.levels,
                          [price |-> price, buy |-> isBuy,
                           usdc_balance |-> acc.usdc_balance,
                           sol_balance |-> acc.sol_balance,
                           attempted |-> affordable,
                           order_id |-> IF affordable THEN r.ret ELSE 0])]
      IN  PlaceLevels(self, k + 1, fail, next)

\* in: ticker, balance, open (results of the three queries), fail (the levels
\* whose placement the exchange refuses)
InitializeGrid(self, in) ==
    LET price == GetCurrentPrice(in.ticker)
        s1 == [self EXCEPT !.current_price = price]
    IN  IF price <= 0
        THEN [self |-> s1, log |-> <<TickerReq>>, levels |-> <<>>, ret |-> FALSE,
              path |-> <<"initialize_grid", "no_price">>]
        ELSE
          LET s2 == [s1 EXCEPT !.grid_prices = CalculateGridPrices(s1, price).ret]
              balance == GetAccountBalance(in.balance)
              cleared == ClearAllOrders(s2, in.open)
              done == PlaceLevels(cleared.self, 1, in.fail,
                        [usdc_balance |-> balance.USDC, sol_balance |-> balance.SOL,
                         grid_orders |-> cleared.self.grid_orders,
                         orders_placed |-> 0, levels |-> <<>>,
                         log |-> <<TickerReq, BalanceReq>> \o cleared.log])
          IN  [self |-> [cleared.self EXCEPT !.grid_orders = done.grid_orders],
               log |-> done.log, levels |-> done.levels,
               ret |-> done.orders_placed > 0,
               path |-> <<"initialize_grid", "placed">>]

(***************************************************************************)
(* update_grid                                                             *)
(***************************************************************************)
\* price_change < self.grid_spacing * 0.5, for a positive reference price
BelowThreshold(self, new_price) ==
    Abs(new_price - self.current_price) * 2 * GridSpacingDen
        < self.grid_spacing * self.current_price

\* in: ticker (the result of the price query), init (the inputs of the
\* initialize_grid call that follows a sufficient change)
UpdateGrid(self, in) ==
    LET new_price == GetCurrentPrice(in.ticker)
    IN  IF new_price <= 0
        THEN [self |-> self, log |-> <<TickerReq>>, levels |-> <<>>,
              ret |-> FALSE, path |-> <<"update_grid", "no_price">>]
        ELSE IF self.current_price = 0
        \* ZeroDivisionError, caught by the method's except clause
        THEN [self |-> self, log |-> <<TickerReq>>, levels |-> <<>>,
              ret |-> FALSE, path |-> <<"update_grid", "exception">>]
        ELSE IF BelowThreshold(self, new_price)
        THEN [self |-> self, log |-> <<TickerReq>>, levels |-> <<>>,
              ret |-> TRUE, path |-> <<"update_grid", "unchanged">>]
        ELSE
          LET r == InitializeGrid([self EXCEPT !.current_price = new_price],
                                  in.init)
          IN  [self |-> r.self, log |-> <<TickerReq>> \o r.log,
               levels |-> r.levels, ret |-> r.ret,
               path |-> <<"update_grid">> \o r.path]

(***************************************************************************)
(* execute_grid_strategy, stop_strategy                                    *)
(***************************************************************************)
Result(success, action, self) ==
    [success |-> success, action |-> action,
     grid_levels |-> IF success THEN Len(self.grid_prices) ELSE 0,
     orders_placed |-> IF success THEN Cardinality(DOMAIN self.grid_orders) ELSE 0]

\* every call initializes
ExecuteGridStrategyAlwaysInit(self, in) ==
    LET r == InitializeGrid([self EXCEPT !.is_running = TRUE], in.init)
    IN  [self |-> r.self, log |-> r.log, levels |-> r.levels,
         path |-> r.path,
         ret |-> Result(r.ret, IF r.ret THEN "grid_initialized"
                               ELSE "grid_init_failed", r.self)]

ExecuteGridStrategy(self, in) ==
    IF ~self.is_running
    THEN LET r == InitializeGrid([self EXCEPT !.is_running = TRUE], in.init)
         IN  [self |-> r.self, log |-> r.log, levels |-> r.levels,
              path |-> r.path,
              ret |-> Result(r.ret, IF r.ret THEN "grid_initialized"
                                    ELSE "grid_init_failed", r.self)]
    ELSE LET r == UpdateGrid(self, in)
         IN  [self |-> r.self, log |-> r.log, levels |-> r.levels,
              path |-> r.path,
              ret |-> Result(r.ret, IF r.ret THEN "grid_updated"
                                    ELSE "grid_update_failed", r.self)]

StopStrategy(self, open) ==
    LET r == ClearAllOrders([self EXCEPT !.is_running = FALSE], open)
    IN  [self |-> r.self, log |-> r.log, levels |-> <<>>, ret |-> <<>>,
         path |-> <<"stop_strategy">>]

(***************************************************************************)
(* The inputs of one call: the results of the queries it makes and the     *)
(* placements the exchange refuses.  Inputs a call does not read are left  *)
(* at their defaults.                                                      *)
(***************************************************************************)
FailSets(self) == {{}} \cup {{k} : k \in 1..(2 * self.max_grid_levels)}

NoInit ==
    [ticker |-> NoTicker, balance |-> NoBalance, open |-> NoOpenOrders,
     fail |-> {}]

\* update_grid goes on to initialize_grid
ReadsInit(self, ticker) ==
    /\ GetCurrentPrice(ticker) > 0
    /\ self.current_price # 0
    /\ ~BelowThreshold(self, GetCurrentPrice(ticker))

\* the price query of update_grid, made only while the strategy is running
UpdateTickers(self) == IF self.is_running THEN TickerResults ELSE {NoTicker}

\* the price query of initialize_grid
InitTickers(self, ticker) ==
    IF ~self.is_running \/ ReadsInit(self, ticker) THEN TickerResults
    ELSE {NoTicker}

\* the queries initialize_grid makes once it has a price
InitBalances(ticker) == IF ticker.ok THEN BalanceResults ELSE {NoBalance}

InitOpenOrders(ticker) == IF ticker.ok THEN OpenOrdersResults ELSE {NoOpenOrders}

InitFailSets(self, ticker) == IF ticker.ok THEN FailSets(self) ELSE {{}}

(***************************************************************************)
(* Actions: one call of a method, and the caller taking the result.        *)
(***************************************************************************)
SetSelf(s) ==
    /\ grid_spacing' = s.grid_spacing
    /\ max_grid_levels' = s.max_grid_levels
    /\ current_price' = s.current_price
    /\ grid_prices' = s.grid_prices
    /\ grid_orders' = s.grid_orders
    /\ is_running' = s.is_running
    /\ UNCHANGED rest_vars

\* run_24h_farming has not been called
NewLoop == [pc |-> "new", cycle_count |-> 0, interrupted |-> FALSE,
            stopped |-> FALSE]

\* no multi-account run: MultiAccountPointsFarmer.__init__ with no account
NoFarm ==
    /\ accounts = <<>>
    /\ main = [pc |-> "new", i |-> 1, enabled_accounts |-> <<>>,
               submitted |-> <<>>, collected |-> {}]
    /\ executor = [max_workers |-> 0, queue |-> <<>>, idle |-> 0, done |-> {}]
    /\ workers = <<>>
    /\ account_farmers = [k \in {} |-> 0]
    /\ accesses = {}
    /\ initial_balance = [none |-> TRUE, value |-> 0]
    /\ loop = NewLoop

\* the object right after construction
Constructed(s) ==
    /\ grid_spacing = s.grid_spacing
    /\ max_grid_levels = s.max_grid_levels
    /\ current_price = s.current_price
    /\ grid_prices = s.grid_prices
    /\ grid_orders = s.grid_orders
    /\ is_running = s.is_running

CalculateGridPricesCall(base_price) ==
    /\ trace = NoCall
    /\ \E r \in {CalculateGridPrices(Self, base_price)} :
           /\ SetSelf(r.self)
           /\ trace' = [op |-> "calculate_grid_prices", in |-> base_price,
                        log |-> <<>>, levels |-> <<>>, ret |-> r.ret,
                        path |-> <<"calculate_grid_prices">>]

ExecuteGridStrategyCall ==
    /\ trace = NoCall
    /\ \E t1 \in UpdateTickers(Self) :
       \E t2 \in InitTickers(Self, t1) :
       \E b \in InitBalances(t2), o \in InitOpenOrders(t2),
          f \in InitFailSets(Self, t2) :
       \E in \in {[ticker |-> t1,
                   init |-> [ticker |-> t2, balance |-> b, open |-> o,
                             fail |-> f]]} :
       \E r \in {ExecuteGridStrategy(Self, in)} :
             /\ SetSelf(r.self)
             /\ trace' = [op |-> "execute_grid_strategy", in |-> in,
                          log |-> r.log, levels |-> r.levels, ret |-> r.ret,
                          path |-> <<"execute_grid_strategy">> \o r.path]

StopStrategyCall ==
    /\ trace = NoCall
    /\ \E open \in OpenOrdersResults :
         \E r \in {StopStrategy(Self, open)} :
             /\ SetSelf(r.self)
             /\ trace' = [op |-> "stop_strategy", in |-> open,
                          log |-> r.log, levels |-> r.levels, ret |-> r.ret,
                          path |-> r.path]

\* the caller has taken the result and goes on to its next call
ResultTaken ==
    /\ trace # NoCall
    /\ trace' = NoCall
    /\ UNCHANGED <<grid_spacing, max_grid_levels, current_price, grid_prices,
                   grid_orders, is_running>>
    /\ UNCHANGED rest_vars

(***************************************************************************)
(* The grid strategy of one account, as the farmer constructs it.          *)
(***************************************************************************)
InitGrid ==
    /\ Constructed(NewStrategy(DefaultGridSpacing, DefaultGridLevels))
    /\ trace = NoCall
    /\ NoFarm

GridNext ==
    \/ ExecuteGridStrategyCall
    \/ StopStrategyCall
    \/ \E p \in Prices : CalculateGridPricesCall(p)
    \/ ResultTaken

SpecGrid == InitGrid /\ [][GridNext]_vars

(***************************************************************************)
(* The first execute_grid_strategy call of a constructed strategy, with    *)
(* balances that run out part-way through the grid.                        *)
(***************************************************************************)
\* SOL for no, one, two and every sell; USDC for no, one, two and every buy,
\* and just short of one
PlacementBalances ==
    {[ok |-> TRUE, SOL |-> s, USDC |-> u] :
        s \in {0, InitialQuantity, 2 * InitialQuantity, 3 * InitialQuantity - 1,
               20 * InitialQuantity},
        u \in {0, 122000 * InitialQuantity, 125000 * InitialQuantity,
               250000 * InitialQuantity, 1000000000}}

\* the exchange refuses up to two placements
PlacementFailSets ==
    {f \in SUBSET (1..(2 * DefaultGridLevels)) : Cardinality(f) <= 2}

FirstExecuteGridStrategyCall ==
    /\ trace = NoCall
    /\ ~is_running /\ current_price = 0
    /\ \E t \in TickerResults \ {NoTicker} :
       \E b \in PlacementBalances, f \in PlacementFailSets :
       \E in \in {[ticker |-> NoTicker,
                   init |-> [ticker |-> t, balance |-> b, open |-> NoOpenOrders,
                             fail |-> f]]} :
       \E r \in {ExecuteGridStrategy(Self, in)} :
             /\ SetSelf(r.self)
             /\ trace' = [op |-> "execute_grid_strategy", in |-> in,
                          log |-> r.log, levels |-> r.levels, ret |-> r.ret,
                          path |-> <<"execute_grid_strategy">> \o r.path]

PlaceNext ==
    \/ FirstExecuteGridStrategyCall
    \/ ResultTaken

SpecPlace == InitGrid /\ [][PlaceNext]_vars

(***************************************************************************)
(* The calculator on its own: any spacing and level count of the bounds,   *)
(* base prices of whole USDC and the 100.00 USDC of the worked example.    *)
(***************************************************************************)
CalcPrices == {1000 * k : k \in 1..MaxCalcPrice} \cup {100000}

InitCalc ==
    /\ \E spacing \in 1..MaxCalcSpacing, levels \in 0..MaxCalcLevels :
         Constructed(NewStrategy(spacing, levels))
    /\ trace = NoCall
    /\ NoFarm

CalcNext ==
    \/ \E p \in CalcPrices : CalculateGridPricesCall(p)
    \/ ResultTaken

SpecCalc == InitCalc /\ [][CalcNext]_vars

(***************************************************************************)
(* The request helpers: AssetManager._make_request,                        *)
(* IntelligentPointsFarmer._make_request, BackpackTokenManager._make_request*)
(*                                                                         *)
(* What happens to one attempt is an outcome:                              *)
(*   kind "sign_error"  an exception before anything is sent (the key      *)
(*                      decoding and signing of AssetManager);             *)
(*   kind "send_error"  an exception out of session.get / session.post;    *)
(*   kind "response"    a response with a status and a text; json = FALSE  *)
(*                      when response.json() raises on it.                 *)
(* A call returns None or the decoded body (its text stands for it).       *)
(***************************************************************************)
Outcome(kind, status, text, json) ==
    [kind |-> kind, status |-> status, text |-> text, json |-> json]

SignError == Outcome("sign_error", 0, "", FALSE)

SendError == Outcome("send_error", 0, "", FALSE)

Response(status, text) == Outcome("response", status, text, TRUE)

NotJson(status) == Outcome("response", status, "not json", FALSE)

None == [none |-> TRUE, body |-> ""]

Body(text) == [none |-> FALSE, body |-> text]

\* the state of the retry loop: the attempt about to run, the HTTP requests
\* sent so far, and, once the function has left the loop, how it left it
Running(attempt, http) ==
    [attempt |-> attempt, http |-> http, done |-> FALSE, raised |-> FALSE,
     result |-> None]

Returned(st, http, result) ==
    [attempt |-> st.attempt, http |-> http, done |-> TRUE, raised |-> FALSE,
     result |-> result]

Raised(st, http) ==
    [attempt |-> st.attempt, http |-> http, done |-> TRUE, raised |-> TRUE,
     result |-> None]

\* the exception of the last attempt is raised again
OnExceptionReraise(st, http, max_retries) ==
    IF st.attempt < max_retries - 1 THEN Running(st.attempt + 1, http)
    ELSE Raised(st, http)

\* the except clause, the same in the three helpers
OnException(st, http, max_retries) ==
    IF st.attempt < max_retries - 1 THEN Running(st.attempt + 1, http)
    ELSE Returned(st, http, None)

\* one pass through the loop body of AssetManager._make_request
AssetManagerAttempt(st, o, max_retries) ==
    IF o.kind = "sign_error" THEN OnException(st, st.http, max_retries)
    ELSE IF o.kind = "send_error" THEN OnException(st, st.http + 1, max_retries)
    ELSE IF o.status = 200
    THEN IF o.json THEN Returned(st, st.http + 1, Body(o.text))
         ELSE OnException(st, st.http + 1, max_retries)
    ELSE IF o.status = 400 /\ o.text = "Request has expired"
    THEN IF st.attempt < max_retries - 1 THEN Running(st.attempt + 1, st.http + 1)
         ELSE Returned(st, st.http + 1, None)
    ELSE Returned(st, st.http + 1, None)

\* every response other than a 200 goes on to the next attempt
FarmerAttemptRetryAll(st, o, max_retries) ==
    IF o.kind # "response" THEN OnException(st, st.http + 1, max_retries)
    ELSE IF o.status = 200
    THEN IF o.json THEN Returned(st, st.http + 1, Body(o.text))
         ELSE OnException(st, st.http + 1, max_retries)
    ELSE Running(st.attempt + 1, st.http + 1)

\* one pass through the loop body of IntelligentPointsFarmer._make_request
FarmerAttempt(st, o, max_retries) ==
    IF o.kind # "response" THEN OnException(st, st.http + 1, max_retries)
    ELSE IF o.status = 200
    THEN IF o.json THEN Returned(st, st.http + 1, Body(o.text))
         ELSE OnException(st, st.http + 1, max_retries)
    ELSE IF o.status = 400
    THEN IF o.text = "Request has expired"
         THEN Running(st.attempt + 1, st.http + 1)
         ELSE Returned(st, st.http + 1, None)
    ELSE Returned(st, st.http + 1, None)

\* one pass through the loop body of BackpackTokenManager._make_request
TokenManagerAttempt(st, o, max_retries) ==
    IF o.kind # "response" THEN OnException(st, st.http + 1, max_retries)
    ELSE IF o.status = 200
    THEN IF o.json THEN Returned(st, st.http + 1, Body(o.text))
         ELSE OnException(st, st.http + 1, max_retries)
    ELSE IF o.status = 400
    THEN IF o.text = "Request has expired"
         THEN Running(st.attempt + 1, st.http + 1)
         ELSE Returned(st, st.http + 1, None)
    ELSE Returned(st, st.http + 1, None)

\* for attempt in range(max_retries): ...; return None
RECURSIVE AssetManagerLoop(_, _, _)
AssetManagerLoop(st, outcomes, max_retries) ==
    IF st.done THEN st
    ELSE IF st.attempt >= max_retries THEN Returned(st, st.http, None)
    ELSE AssetManagerLoop(
           AssetManagerAttempt(st, outcomes[st.attempt + 1], max_retries),
           outcomes, max_retries)

RECURSIVE FarmerLoop(_, _, _)
FarmerLoop(st, outcomes, max_retries) ==
    IF st.done THEN st
    ELSE IF st.attempt >= max_retries THEN Returned(st, st.http, None)
    ELSE FarmerLoop(FarmerAttempt(st, outcomes[st.attempt + 1], max_retries),
                    outcomes, max_retries)

RECURSIVE TokenManagerLoop(_, _, _)
TokenManagerLoop(st, outcomes, max_retries) ==
    IF st.done THEN st
    ELSE IF st.attempt >= max_retries THEN Returned(st, st.http, None)
    ELSE TokenManagerLoop(
           TokenManagerAttempt(st, outcomes[st.attempt + 1], max_retries),
           outcomes, max_retries)

\* outcomes: what happens to the attempts, one outcome for each attempt that
\* max_retries allows
AssetManagerMakeRequest(outcomes, max_retries) ==
    AssetManagerLoop(Running(0, 0), outcomes, max_retries)

FarmerMakeRequest(outcomes, max_retries) ==
    FarmerLoop(Running(0, 0), outcomes, max_retries)

TokenManagerMakeRequest(outcomes, max_retries) ==
    TokenManagerLoop(Running(0, 0), outcomes, max_retries)

(***************************************************************************)
(* One call of a request helper, for any max_retries of the bounds and     *)
(* any outcome of each attempt.                                            *)
(***************************************************************************)
SentOutcomes ==
    {SendError, Response(200, "json"), NotJson(200),
     Response(400, "Request has expired"), Response(400, "other"),
     Response(500, "other")}

RequestTrace(client, outcomes, max_retries, r) ==
    [op |-> "_make_request", client |-> client,
     in |-> [outcomes |-> outcomes, max_retries |-> max_retries],
     http |-> r.http, raised |-> r.raised, ret |-> r.result,
     \* the outcomes the call went through
     seen |-> SubSeq(outcomes, 1, IF r.attempt < max_retries THEN r.attempt + 1
                                  ELSE max_retries)]

AssetManagerMakeRequestCall ==
    /\ trace = NoCall
    /\ \E max_retries \in 0..MaxRetries :
       \E outcomes \in [1..max_retries -> SentOutcomes \cup {SignError}] :
       \E r \in {AssetManagerMakeRequest(outcomes, max_retries)} :
         trace' = RequestTrace("AssetManager", outcomes, max_retries, r)
    /\ UNCHANGED <<grid_spacing, max_grid_levels, current_price, grid_prices,
                   grid_orders, is_running>>
    /\ UNCHANGED rest_vars

FarmerMakeRequestCall ==
    /\ trace = NoCall
    /\ \E max_retries \in 0..MaxRetries :
       \E outcomes \in [1..max_retries -> SentOutcomes] :
       \E r \in {FarmerMakeRequest(outcomes, max_retries)} :
         trace' = RequestTrace("IntelligentPointsFarmer", outcomes, max_retries, r)
    /\ UNCHANGED <<grid_spacing, max_grid_levels, current_price, grid_prices,
                   grid_orders, is_running>>
    /\ UNCHANGED rest_vars

TokenManagerMakeRequestCall ==
    /\ trace = NoCall
    /\ \E max_retries \in 0..MaxRetries :
       \E outcomes \in [1..max_retries -> SentOutcomes] :
       \E r \in {TokenManagerMakeRequest(outcomes, max_retries)} :
         trace' = RequestTrace("BackpackTokenManager", outcomes, max_retries, r)
    /\ UNCHANGED <<grid_spacing, max_grid_levels, current_price, grid_prices,
                   grid_orders, is_running>>
    /\ UNCHANGED rest_vars

RequestNext ==
    \/ AssetManagerMakeRequestCall
    \/ FarmerMakeRequestCall
    \/ TokenManagerMakeRequestCall
    \/ ResultTaken

SpecRequest == InitGrid /\ [][RequestNext]_vars

(***************************************************************************)
(* The signing of AssetManager._make_request.                              *)
(*                                                                         *)
(* A string built of 'k=v' segments joined by '&' is the sequence of its   *)
(* segments <<k, v>>.  A params dict is the sequence of its items in       *)
(* insertion order, its keys distinct; None and the empty dict are <<>>.   *)
(* A timestamp is a number of milliseconds; str() and the f-string write   *)
(* an int the same way, so a header holds the number itself.               *)
(***************************************************************************)
MaxParams == 2              \* keys of one params dict
DefaultMaxRetries == 3      \* max_retries: int = 3
Window == 5000              \* window = 5000

\* the characters of the keys, as code points
KeyCodes ==
    [symbol    |-> <<115, 121, 109, 98, 111, 108>>,
     side      |-> <<115, 105, 100, 101>>,
     quantity  |-> <<113, 117, 97, 110, 116, 105, 116, 121>>,
     orderType |-> <<111, 114, 100, 101, 114, 84, 121, 112, 101>>]

\* a < b, as Python orders two strings
RECURSIVE StrLess(_, _)
StrLess(a, b) ==
    IF b = <<>> THEN FALSE
    ELSE IF a = <<>> THEN TRUE
    ELSE IF a[1] # b[1] THEN a[1] < b[1]
    ELSE StrLess(Tail(a), Tail(b))

RECURSIVE InsertItem(_, _)
InsertItem(items, x) ==
    IF items = <<>> THEN <<x>>
    ELSE IF StrLess(KeyCodes[x[1]], KeyCodes[items[1][1]]) THEN <<x>> \o items
    ELSE <<items[1]>> \o InsertItem(Tail(items), x)

\* the items are left in the order of the dict
SortedItemsInsertionOrder(params) == params

\* sorted(params.items())
RECURSIVE SortedItems(_)
SortedItems(params) ==
    IF params = <<>> THEN <<>>
    ELSE InsertItem(SortedItems(Tail(params)), params[1])

\* lines 73-77
SigningString(instruction, params, timestamp, window) ==
    IF params # <<>>
    THEN <<<<"instruction", instruction>>>> \o SortedItems(params)
           \o <<<<"timestamp", timestamp>>, <<"window", window>>>>
    ELSE <<<<"instruction", instruction>>, <<"timestamp", timestamp>>,
           <<"window", window>>>>

\* private_key.sign(message): the signature of a message under a key
Sign(private_key, message) == [key |-> private_key, message |-> message]

\* lines 83-89; api_key and private_key are those of the configuration
SignedHeaders(timestamp, window, signature) ==
    [content_type |-> "application/json", x_api_key |-> "api_key",
     x_timestamp |-> timestamp, x_window |-> window, x_signature |-> signature]

\* what one attempt signs and sends, the clock reading now when it signs
SignedAttempt(attempt, method, instruction, params, now) ==
    LET signing_string == SigningString(instruction, params, now, Window)
    IN  [attempt |-> attempt,
         verb |-> IF method = "GET" THEN "GET" ELSE "POST",
         params |-> params,
         signing_string |-> signing_string,
         headers |-> SignedHeaders(now, Window,
                                   Sign("private_key", signing_string))]

\* the requests of the attempts 1..n that got as far as sending
RECURSIVE SignedAttempts(_, _, _, _, _, _)
SignedAttempts(n, method, instruction, params, outcomes, times) ==
    IF n = 0 THEN <<>>
    ELSE SignedAttempts(n - 1, method, instruction, params, outcomes, times)
           \o (IF outcomes[n].kind = "sign_error" THEN <<>>
               ELSE <<SignedAttempt(n, method, instruction, params, times[n])>>)

\* one call with the default max_retries; times[i]: time.time() * 1000 in
\* attempt i
AssetManagerSignedRequest(method, instruction, params, outcomes, times) ==
    LET r == AssetManagerMakeRequest(outcomes, DefaultMaxRetries)
        n == IF r.attempt < DefaultMaxRetries THEN r.attempt + 1
             ELSE DefaultMaxRetries
    IN  [ret |-> r.result, attempts |-> n,
         sent |-> SignedAttempts(n, method, instruction, params, outcomes, times)]

ParamValue == [symbol |-> "SOL_USDC", side |-> "Bid", quantity |-> "0.05",
               orderType |-> "Market"]

\* the dicts of at most MaxParams items, in every insertion order
ParamDicts ==
    {[i \in DOMAIN ks |-> <<ks[i], ParamValue[ks[i]]>>] :
        ks \in {q \in UNION {[1..n -> DOMAIN KeyCodes] : n \in 0..MaxParams} :
                  \A i, j \in DOMAIN q : i # j => q[i] # q[j]}}

SignOutcomes ==
    {SignError, SendError, Response(200, "json"),
     Response(400, "Request has expired")}

\* the attempts the call does not make are given SendError
SignRuns ==
    {o \in [1..DefaultMaxRetries -> SignOutcomes] :
        \A i \in 1..DefaultMaxRetries :
            i > AssetManagerMakeRequest(o, DefaultMaxRetries).attempt + 1
               => o[i] = SendError}

\* the clock: a retry comes after time.sleep(1)
ClockRuns == {<<1000, 2000, 3000>>, <<1001, 2003, 3007>>}

AssetManagerSignedRequestCall ==
    /\ trace = NoCall
    /\ \E method \in {"GET", "POST"}, instruction \in {"balanceQuery", "orderExecute"} :
       \E params \in ParamDicts, outcomes \in SignRuns, times \in ClockRuns :
       \E r \in {AssetManagerSignedRequest(method, instruction, params, outcomes, times)} :
         trace' = [op |-> "signed_request",
                   in |-> [method |-> method, instruction |-> instruction,
                           params |-> params, outcomes |-> outcomes,
                           times |-> times],
                   attempts |-> r.attempts, sent |-> r.sent, ret |-> r.ret]
    /\ UNCHANGED <<grid_spacing, max_grid_levels, current_price, grid_prices,
                   grid_orders, is_running>>
    /\ UNCHANGED rest_vars

SignNext ==
    \/ AssetManagerSignedRequestCall
    \/ ResultTaken

SpecSign == InitGrid /\ [][SignNext]_vars

(***************************************************************************)
(* AssetManager.buy_asset                                                  *)
(*                                                                         *)
(* Units: amount_usd and the ticker price are numbers of cents; the        *)
(* quantity is a number of 1/10^8 of the asset.                            *)
(***************************************************************************)
MinAssetAmount == 10000     \* min_asset_amount = 0.0001

RECURSIVE Pow10(_)
Pow10(k) == IF k = 0 THEN 1 ELSE 10 * Pow10(k - 1)

\* n / d to k decimal places, cut off: the digits q and the remainder r
RECURSIVE Quotient(_, _, _)
Quotient(n, d, k) ==
    IF k = 0 THEN [q |-> n \div d, r |-> n % d]
    ELSE LET p == Quotient(n, d, k - 1)
         IN  [q |-> p.q * 10 + (p.r * 10) \div d, r |-> (p.r * 10) % d]

\* round(n / d, k), as a number of 1/10^k
RoundTo(n, d, k) ==
    LET p == Quotient(n, d, k)
    IN  IF 2 * p.r < d THEN p.q
        ELSE IF 2 * p.r > d THEN p.q + 1
        ELSE IF p.q % 2 = 0 THEN p.q ELSE p.q + 1

\* 'BTC' in symbol, 'ETH' in symbol
Contains(symbol, asset) ==
    \/ asset = "BTC" /\ symbol \in {"BTC_USDC"}
    \/ asset = "ETH" /\ symbol \in {"ETH_USDC"}

\* every asset is given 8 decimal places
QuantityDecimalsAlways8(symbol) == 8

\* lines 193-198
QuantityDecimals(symbol) ==
    IF Contains(symbol, "BTC") THEN 8
    ELSE IF Contains(symbol, "ETH") THEN 6
    ELSE 4

\* round(amount_usd / price, decimals)
BuyQuantity(symbol, amount_usd, price) ==
    RoundTo(amount_usd, price, QuantityDecimals(symbol))
      * Pow10(8 - QuantityDecimals(symbol))

\* the check of the minimum left out
BelowMinimumNever(quantity) == FALSE

\* quantity < self.config.min_asset_amount
BelowMinimum(quantity) == quantity < MinAssetAmount

\* 'orderId' in result or 'id' in result
HasOrderId(result) == ~result.none /\ result.body = "order"

\* one order call of buy_asset: the parameter that names the size, its value,
\* the HTTP requests the helper sent for it and the last outcome it met
OrderCall(param, value, outcomes, r) ==
    [operation |-> "orderExecute", param |-> param, value |-> value,
     http |-> r.http,
     last |-> outcomes[IF r.attempt < DefaultMaxRetries THEN r.attempt + 1
                       ELSE DefaultMaxRetries]]

\* price: what get_asset_price returns (0 when the ticker gives none);
\* outcomes1, outcomes2: the outcomes of the attempts of the two order calls
BuyAsset(symbol, amount_usd, price, outcomes1, outcomes2) ==
    IF price <= 0
    THEN [ret |-> FALSE, quantity |-> 0, log |-> <<>>]
    ELSE
      LET quantity == BuyQuantity(symbol, amount_usd, price)
      IN  IF BelowMinimum(quantity)
          THEN [ret |-> FALSE, quantity |-> quantity, log |-> <<>>]
          ELSE
            LET r1 == AssetManagerMakeRequest(outcomes1, DefaultMaxRetries)
                c1 == OrderCall("quoteQuantity", amount_usd, outcomes1, r1)
            IN  IF HasOrderId(r1.result)
                THEN [ret |-> TRUE, quantity |-> quantity, log |-> <<c1>>]
                ELSE IF ~r1.result.none /\ r1.result.body = "INSUFFICIENT_FUNDS"
                THEN LET r2 == AssetManagerMakeRequest(outcomes2, DefaultMaxRetries)
                         c2 == OrderCall("quantity", quantity, outcomes2, r2)
                     IN  [ret |-> HasOrderId(r2.result), quantity |-> quantity,
                          log |-> <<c1, c2>>]
                ELSE [ret |-> FALSE, quantity |-> quantity, log |-> <<c1>>]

\* the outcomes an order attempt can meet
OrderOutcomes ==
    {SendError, Response(200, "order"), Response(200, "INSUFFICIENT_FUNDS"),
     Response(200, "other"), Response(400, "INSUFFICIENT_FUNDS"),
     Response(400, "Request has expired")}

\* the outcomes of the attempts of one order call; the attempts the call does
\* not make are given SendError
OrderRuns ==
    {s \in [1..DefaultMaxRetries -> OrderOutcomes] :
        \A i \in 1..DefaultMaxRetries :
            i > AssetManagerMakeRequest(s, DefaultMaxRetries).attempt + 1
               => s[i] = SendError}

NoRun == [i \in 1..DefaultMaxRetries |-> SendError]

BuySymbols == {"BTC_USDC", "ETH_USDC", "SOL_USDC"}

\* 0.01, 50.00 and 100.00 USDC
BuyAmounts == {1, 5000, 10000}

\* none, 130.00, 3007.00 and 97000.00 USDC
BuyPrices == {0, 13000, 300700, 9700000}

\* the first order call is made
FirstRuns(symbol, amount_usd, price) ==
    IF price > 0 /\ ~BelowMinimum(BuyQuantity(symbol, amount_usd, price))
    THEN OrderRuns ELSE {NoRun}

\* the second order call is made
SecondRuns(outcomes1) ==
    LET r1 == AssetManagerMakeRequest(outcomes1, DefaultMaxRetries)
    IN  IF ~r1.result.none /\ r1.result.body = "INSUFFICIENT_FUNDS"
        THEN OrderRuns ELSE {NoRun}

BuyAssetCall ==
    /\ trace = NoCall
    /\ \E symbol \in BuySymbols, amount_usd \in BuyAmounts, price \in BuyPrices :
       \E outcomes1 \in FirstRuns(symbol, amount_usd, price) :
       \E outcomes2 \in SecondRuns(outcomes1) :
       \E r \in {BuyAsset(symbol, amount_usd, price, outcomes1, outcomes2)} :
         trace' = [op |-> "buy_asset",
                   in |-> [symbol |-> symbol, amount_usd |-> amount_usd,
                           price |-> price, outcomes1 |-> outcomes1,
                           outcomes2 |-> outcomes2],
                   quantity |-> r.quantity, log |-> r.log, ret |-> r.ret]
    /\ UNCHANGED <<grid_spacing, max_grid_levels, current_price, grid_prices,
                   grid_orders, is_running>>
    /\ UNCHANGED rest_vars

(***************************************************************************)
(* AssetManager.get_current_assets, check_and_replenish_assets             *)
(*                                                                         *)
(* Units: a holding is a number of 1/10^4 of the asset, a ticker price a   *)
(* number of whole USDC, a value or a target a number of 1/10^4 USDC.  A   *)
(* reply that is a list is the sequence of its entries [token, total];     *)
(* ok = FALSE is a request that returned None (for the collateral query:   *)
(* or a reply without 'collateral').  The two replies are what the         *)
(* exchange answers for the account, whether or not the query is made.     *)
(***************************************************************************)
\* self.config.target_assets, in the order of the dict
TargetAssets == <<"SOL", "ETH", "BTC", "USDC">>

\* 0.5, 50.0, 50.0 and 100.0
TargetValue == [SOL |-> 5000, ETH |-> 500000, BTC |-> 500000, USDC |-> 1000000]

\* the ticker prices of the pairs: 125, 2500 and 50000 USDC
PairPrice == [SOL |-> 125, ETH |-> 2500, BTC |-> 50000]

\* the holding an entry of a reply reports: half of what reaches the target
EntryTotal == [SOL |-> 20, ETH |-> 100, BTC |-> 5, USDC |-> 500000]

Get(d, k, default) == IF k \in DOMAIN d THEN d[k] ELSE default

\* the loop of lines 136-141, from the i-th entry on
RECURSIVE SpotTotals(_, _, _)
SpotTotals(list, i, current_assets) ==
    IF i > Len(list) THEN current_assets
    ELSE SpotTotals(list, i + 1,
                    IF list[i].total > 0
                    THEN DictSet(current_assets, list[i].token, list[i].total)
                    ELSE current_assets)

\* the loop of lines 148-156, from the i-th entry on
RECURSIVE CollateralTotals(_, _, _)
CollateralTotals(list, i, current_assets) ==
    IF i > Len(list) THEN current_assets
    ELSE CollateralTotals(list, i + 1,
                          IF list[i].total > 0
                          THEN DictSet(current_assets, list[i].token,
                                       Get(current_assets, list[i].token, 0)
                                         + list[i].total)
                          ELSE current_assets)

\* {} when the balance request brings nothing ('if not balances': None, or an
\* empty reply), without the collateral query
GetCurrentAssets(spot, collateral) ==
    IF ~spot.ok \/ spot.list = <<>> THEN EmptyDict
    ELSE LET held == SpotTotals(spot.list, 1, EmptyDict)
         IN  IF collateral.ok THEN CollateralTotals(collateral.list, 1, held)
             ELSE held

\* the notional of a buy, in cents (lines 303-306)
BuyAmount(asset) == IF asset = "ETH" \/ asset = "BTC" THEN 5000 ELSE 10000

\* f"{asset}_USDC"
Pair(asset) ==
    IF asset = "SOL" THEN "SOL_USDC"
    ELSE IF asset = "ETH" THEN "ETH_USDC" ELSE "BTC_USDC"

\* the loop of lines 266-290, from the i-th target on; priced[asset]: the
\* price query of the asset brings a price
RECURSIVE AssetsToBuy(_, _, _)
AssetsToBuy(current_assets, priced, i) ==
    IF i > Len(TargetAssets) THEN <<>>
    ELSE LET asset == TargetAssets[i]
             current_amount == Get(current_assets, asset, 0)
             rest == AssetsToBuy(current_assets, priced, i + 1)
         IN  IF asset # "USDC" /\ ~priced[asset] THEN rest
             ELSE LET current_value ==
                          IF asset = "USDC" THEN current_amount
                          ELSE current_amount * PairPrice[asset]
                  IN  IF current_value < TargetValue[asset]
                      THEN <<asset>> \o rest ELSE rest

\* how a call of buy_asset goes: the price it gets and the outcomes of its
\* order attempts
BuyScenario(asset, how) ==
    [price |-> IF how = "no_price" THEN 0 ELSE 100 * PairPrice[asset],
     outcomes1 |-> IF how = "bought" THEN [NoRun EXCEPT ![1] = Response(200, "order")]
                   ELSE [NoRun EXCEPT ![1] = Response(400, "INSUFFICIENT_FUNDS")],
     outcomes2 |-> NoRun]

\* the loop of lines 297-317, from the i-th asset to buy on
RECURSIVE BuyEach(_, _, _, _)
BuyEach(assets_to_buy, hows, i, acc) ==
    IF i > Len(assets_to_buy) THEN acc
    ELSE LET asset == assets_to_buy[i]
         IN  IF asset = "USDC" THEN BuyEach(assets_to_buy, hows, i + 1, acc)
             ELSE LET sc == BuyScenario(asset, hows[asset])
                      r == BuyAsset(Pair(asset), BuyAmount(asset), sc.price,
                                    sc.outcomes1, sc.outcomes2)
                  IN  BuyEach(assets_to_buy, hows, i + 1,
                              [success_count |-> acc.success_count
                                                   + (IF r.ret THEN 1 ELSE 0),
                               calls |-> Append(acc.calls,
                                                [asset |-> asset,
                                                 symbol |-> Pair(asset),
                                                 amount_usd |-> BuyAmount(asset),
                                                 orders |-> r.log])])

CheckAndReplenishAssets(spot, collateral, priced, hows) ==
    LET current_assets == GetCurrentAssets(spot, collateral)
        assets_to_buy == AssetsToBuy(current_assets, priced, 1)
    IN  IF assets_to_buy = <<>>
        THEN [ret |-> TRUE, current_assets |-> current_assets,
              assets_to_buy |-> assets_to_buy, calls |-> <<>>]
        ELSE LET done == BuyEach(assets_to_buy, hows, 1,
                                 [success_count |-> 0, calls |-> <<>>])
             IN  [ret |-> done.success_count > 0,
                  current_assets |-> current_assets,
                  assets_to_buy |-> assets_to_buy, calls |-> done.calls]

\* the entries of a reply that reports the holdings total[asset] above zero
RECURSIVE ListOf(_, _)
ListOf(total, i) ==
    IF i > Len(TargetAssets) THEN <<>>
    ELSE (IF total[TargetAssets[i]] > 0
          THEN <<[token |-> TargetAssets[i], total |-> total[TargetAssets[i]]]>>
          ELSE <<>>) \o ListOf(total, i + 1)

NoReply == [ok |-> FALSE, list |-> <<>>]

\* the holdings a reply can report
Totals ==
    UNION {{0, EntryTotal[a], 2 * EntryTotal[a]} : a \in Range(TargetAssets)}

\* a balance reply reports nothing or the entry total of an asset
SpotReplies ==
    {NoReply} \cup
    {[ok |-> TRUE, list |-> ListOf(total, 1)] :
       total \in {t \in [Range(TargetAssets) -> Totals] :
                    \A a \in Range(TargetAssets) : t[a] \in {0, EntryTotal[a]}}}

\* a collateral reply reports nothing, the entry total of an asset or twice it
CollateralReplies ==
    {NoReply} \cup
    {[ok |-> TRUE, list |-> ListOf(total, 1)] :
       total \in {t \in [Range(TargetAssets) -> Totals] :
                    /\ \A a \in DOMAIN PairPrice :
                         t[a] \in {0, EntryTotal[a], 2 * EntryTotal[a]}
                    /\ t["USDC"] \in {0, EntryTotal["USDC"]}}}

BuyHows == {"bought", "rejected", "no_price"}

\* buy_asset is called for the assets to buy other than USDC
HowsOf(spot, collateral, priced) ==
    LET assets_to_buy == AssetsToBuy(GetCurrentAssets(spot, collateral), priced, 1)
    IN  {h \in [DOMAIN PairPrice -> BuyHows] :
            \A a \in DOMAIN PairPrice : a \notin Range(assets_to_buy) => h[a] = "bought"}

CheckAndReplenishAssetsCall ==
    /\ trace = NoCall
    /\ \E spot \in SpotReplies :
       \E collateral \in CollateralReplies :
       \E priced \in [DOMAIN PairPrice -> BOOLEAN] :
       \E hows \in HowsOf(spot, collateral, priced) :
       \E r \in {CheckAndReplenishAssets(spot, collateral, priced, hows)} :
         trace' = [op |-> "check_and_replenish_assets",
                   in |-> [spot |-> spot, collateral |-> collateral,
                           priced |-> priced, hows |-> hows],
                   calls |-> r.calls, ret |-> r.ret]
    /\ UNCHANGED <<grid_spacing, max_grid_levels, current_price, grid_prices,
                   grid_orders, is_running>>
    /\ UNCHANGED rest_vars

ReplenishNext ==
    \/ CheckAndReplenishAssetsCall
    \/ ResultTaken

SpecReplenish == InitGrid /\ [][ReplenishNext]_vars

(***************************************************************************)
(* BackpackTokenManager.sell_all_tokens_except_sol, _sell_token            *)
(*                                                                         *)
(* Units: an available quantity is a number of 1/10^7 of the token.  The   *)
(* price lookups of get_all_token_balances feed only the logged USD value  *)
(* and are left out.                                                       *)
(***************************************************************************)
MaxBalances == 2            \* entries of one balance reply
MinSellAmount == 10000      \* min_sell_amount = 0.001

\* f"{quantity:.6f}", as a number of 1/10^6
FormatQuantity(quantity) == RoundDiv(quantity, 10)

\* only SOL is kept back
RECURSIVE TokensToSellKeepSolOnly(_, _)
TokensToSellKeepSolOnly(balances, k) ==
    IF k > Len(balances) THEN <<>>
    ELSE (IF /\ balances[k].symbol # "SOL"
             /\ balances[k].available_quantity >= MinSellAmount
          THEN <<k>> ELSE <<>>) \o TokensToSellKeepSolOnly(balances, k + 1)

\* the loop of lines 193-197, from the k-th balance on: the indices of the
\* balances to sell
RECURSIVE TokensToSell(_, _)
TokensToSell(balances, k) ==
    IF k > Len(balances) THEN <<>>
    ELSE (IF /\ balances[k].symbol # "SOL"
             /\ balances[k].symbol # "USDC"
             /\ balances[k].available_quantity >= MinSellAmount
          THEN <<k>> ELSE <<>>) \o TokensToSell(balances, k + 1)

SellReq(operation, k, symbol, side, quantity) ==
    [operation |-> operation, entry |-> k, symbol |-> symbol, side |-> side,
     orderType |-> IF operation = "sellOrder" THEN "Market" ELSE "",
     quantity |-> quantity]

\* outcome: how far the sale gets: "no_markets" (the markets query fails),
\* "no_pair" (no <symbol>_USDC market), "no_ticker" (the price query fails),
\* "refused" (the order reply has no order id), "sold"
SellToken(k, token, outcome) ==
    LET pair == <<token.symbol, "USDC">>
        markets == SellReq("getMarkets", k, <<>>, "", 0)
        ticker == SellReq("getTicker", k, pair, "", 0)
        order == SellReq("sellOrder", k, pair, "Ask",
                         FormatQuantity(token.available_quantity))
    IN  IF outcome \in {"no_markets", "no_pair"}
        THEN [ret |-> FALSE, log |-> <<markets>>]
        ELSE IF outcome = "no_ticker"
        THEN [ret |-> FALSE, log |-> <<markets, ticker>>]
        ELSE [ret |-> outcome = "sold", log |-> <<markets, ticker, order>>]

\* the loop of lines 207-212, from the i-th token to sell on
RECURSIVE SellEach(_, _, _, _, _)
SellEach(balances, tokens, outcomes, i, acc) ==
    IF i > Len(tokens) THEN acc
    ELSE LET token == balances[tokens[i]]
             r == SellToken(tokens[i], token, outcomes[i])
         IN  SellEach(balances, tokens, outcomes, i + 1,
                      [sell_results |-> DictSet(acc.sell_results, token.symbol, r.ret),
                       log |-> acc.log \o r.log])

\* reply: the balance reply (ok = FALSE: none, or one without 'balances')
SellAllTokensExceptSol(reply, outcomes) ==
    LET balances == IF reply.ok THEN reply.balances ELSE <<>>
        tokens == TokensToSell(balances, 1)
    IN  IF balances = <<>> \/ tokens = <<>>
        THEN [ret |-> EmptyDict, log |-> <<>>]
        ELSE LET done == SellEach(balances, tokens, outcomes, 1,
                                  [sell_results |-> EmptyDict, log |-> <<>>])
             IN  [ret |-> done.sell_results, log |-> done.log]

TokenBalances ==
    [symbol : {"SOL", "USDC", "BTC", "ETH"},
     available_quantity : {9999, 10000, 25005}]

BalanceReplies ==
    {[ok |-> FALSE, balances |-> <<>>]} \cup
    {[ok |-> TRUE, balances |-> b] :
        b \in UNION {[1..n -> TokenBalances] : n \in 0..MaxBalances}}

SellOutcomes == {"no_markets", "no_pair", "no_ticker", "refused", "sold"}

SellAllTokensExceptSolCall ==
    /\ trace = NoCall
    /\ \E reply \in BalanceReplies :
       \E outcomes \in [1..Len(TokensToSell(reply.balances, 1)) -> SellOutcomes] :
       \E r \in {SellAllTokensExceptSol(reply, outcomes)} :
         trace' = [op |-> "sell_all_tokens_except_sol",
                   in |-> [reply |-> reply, outcomes |-> outcomes],
                   log |-> r.log, ret |-> r.ret]
    /\ UNCHANGED <<grid_spacing, max_grid_levels, current_price, grid_prices,
                   grid_orders, is_running>>
    /\ UNCHANGED rest_vars

AssetNext ==
    \/ BuyAssetCall
    \/ SellAllTokensExceptSolCall
    \/ ResultTaken

SpecAsset == InitGrid /\ [][AssetNext]_vars

(***************************************************************************)
(* MultiAccountPointsFarmer.run_multi_account_farming and its workers,     *)
(* run_single_account_concurrent.                                          *)
(*                                                                         *)
(* An account is [account_id, enabled].  Thread 0 runs                     *)
(* run_multi_account_farming; thread t >= 1 is the t-th thread of the      *)
(* pool.  A worker's calls into its farmer (execute_grid_strategy and the  *)
(* others) catch their own exceptions and touch that farmer only; what a   *)
(* step of the worker does to the account's grid is left out here.  The    *)
(* counters of the worker (cycle_count, day_count, those of account_stats) *)
(* and its log lines are left out; the status of account_stats is kept.    *)
(***************************************************************************)
MaxAccounts == 3            \* accounts of one configuration

AccountLists ==
    {[k \in DOMAIN en |-> [account_id |-> k, enabled |-> en[k]]] :
        en \in UNION {[1..n -> BOOLEAN] : n \in 0..MaxAccounts}}

RECURSIVE Enabled(_)
\* [acc for acc in self.config.accounts if acc.enabled]
Enabled(accs) ==
    IF accs = <<>> THEN <<>>
    ELSE (IF Head(accs).enabled THEN <<Head(accs)>> ELSE <<>>)
           \o Enabled(Tail(accs))

\* the pool has one thread, whatever the number of accounts
PoolSizeOne(enabled_accounts) == 1

\* max_accounts = len(enabled_accounts)
PoolSize(enabled_accounts) == Len(enabled_accounts)

Access(thread, object, key, write) ==
    [thread |-> thread, object |-> object, key |-> key, write |-> write]

\* lines 357-375: the enabled accounts, and the pool if there is one
RunMultiAccountFarmingStart ==
    /\ main.pc = "new"
    /\ LET enabled_accounts == Enabled(accounts)
       IN  IF enabled_accounts = <<>>
           THEN /\ main' = [main EXCEPT !.pc = "returned"]
                /\ UNCHANGED executor
           ELSE /\ main' = [main EXCEPT !.pc = "submit",
                                        !.enabled_accounts = enabled_accounts]
                /\ executor' = [executor EXCEPT
                                  !.max_workers = PoolSize(enabled_accounts)]
    /\ UNCHANGED <<accounts, workers, account_farmers, accesses>>
    /\ UNCHANGED grid_vars

NewThread == [pc |-> "idle", account |-> 0, status |-> ""]

\* one pass of the loop of lines 379-386: executor.submit puts the task on the
\* queue and starts a thread when none is idle and the pool is not full
SubmitAccount ==
    /\ main.pc = "submit"
    /\ LET account == main.enabled_accounts[main.i]
           spawn == executor.idle = 0 /\ Len(workers) < executor.max_workers
       IN  /\ executor' = [executor EXCEPT
                             !.queue = Append(@, account.account_id),
                             !.idle = IF @ > 0 THEN @ - 1 ELSE 0]
           /\ workers' = IF spawn THEN Append(workers, NewThread) ELSE workers
           /\ main' = [main EXCEPT
                         !.submitted = Append(@, account.account_id),
                         !.i = @ + 1,
                         !.pc = IF main.i = Len(main.enabled_accounts)
                                THEN "wait" ELSE "submit"]
    /\ UNCHANGED <<accounts, account_farmers, accesses>>
    /\ UNCHANGED grid_vars

\* one pass of the loop of lines 389-396 over a finished task; the with
\* block ends when every task has been collected
CollectResult ==
    /\ main.pc = "wait"
    /\ \E k \in executor.done \ main.collected :
         /\ main' = [main EXCEPT
                       !.collected = @ \cup {k},
                       !.pc = IF main.collected \cup {k} = Range(main.submitted)
                              THEN "returned" ELSE "wait"]
         /\ accesses' = accesses \cup {Access(0, "stats", k, TRUE)}
    /\ UNCHANGED <<accounts, executor, workers, account_farmers>>
    /\ UNCHANGED grid_vars

\* a thread of the pool takes the task at the head of the queue
TakeTask(t) ==
    /\ workers[t].pc = "idle"
    /\ executor.queue # <<>>
    /\ workers' = [workers EXCEPT ![t] = [pc |-> "setup",
                                           account |-> Head(executor.queue),
                                           status |-> "running"]]
    /\ executor' = [executor EXCEPT !.queue = Tail(@)]
    /\ UNCHANGED <<accounts, main, account_farmers, accesses>>
    /\ UNCHANGED grid_vars

\* the farmer of every account is one object
CreateAccountFarmerShared(account) == 0

\* create_account_farmer: a new IntelligentPointsFarmer for the account
CreateAccountFarmer(account) == account

\* what a worker touches in a call into its farmer
FarmerCalls(t, farmer) ==
    {Access(t, "farmer", farmer, TRUE), Access(t, "session", farmer, TRUE),
     Access(t, "grid_strategy", farmer, TRUE)}

\* the task's future is done and the thread waits for another task
TaskDone(t, status) ==
    /\ workers' = [workers EXCEPT ![t].pc = "idle", ![t].status = status]
    /\ executor' = [executor EXCEPT !.done = @ \cup {workers[t].account},
                                    !.idle = @ + 1]

\* lines 259-277; raises: create_account_farmer raises
WorkerSetup(t, raises) ==
    /\ workers[t].pc = "setup"
    /\ LET account == workers[t].account
           farmer == CreateAccountFarmer(account)
       IN  IF raises
           THEN \* except Exception (line 346), finally, return
                /\ TaskDone(t, "error")
                /\ UNCHANGED <<account_farmers, accesses>>
           ELSE /\ workers' = [workers EXCEPT ![t].pc = "loop"]
                /\ account_farmers' = DictSet(account_farmers, account, farmer)
                /\ accesses' = accesses \cup FarmerCalls(t, farmer)
                                 \cup {Access(t, "account_farmers", account, TRUE)}
                /\ UNCHANGED executor
    /\ UNCHANGED <<accounts, main>>
    /\ UNCHANGED grid_vars

\* one pass of the while loop of lines 283-337, its sleep included; outcome:
\* "ok", "exception" (raised in the try block: logged, sleep, continue),
\* "interrupt" (KeyboardInterrupt: break, then lines 339-355: stop_strategy,
\* status 'completed', return)
WorkerCycle(t, outcome) ==
    /\ workers[t].pc = "loop"
    /\ IF outcome = "interrupt"
       THEN TaskDone(t, "completed")
       ELSE UNCHANGED <<workers, executor>>
    /\ accesses' = accesses
                     \cup FarmerCalls(t, CreateAccountFarmer(workers[t].account))
                     \cup {Access(t, "random", 0, TRUE)}
    /\ UNCHANGED <<accounts, main, account_farmers>>
    /\ UNCHANGED grid_vars

InitFarm ==
    /\ Constructed(NewStrategy(DefaultGridSpacing, DefaultGridLevels))
    /\ trace = NoCall
    /\ accounts \in AccountLists
    /\ main = [pc |-> "new", i |-> 1, enabled_accounts |-> <<>>,
               submitted |-> <<>>, collected |-> {}]
    /\ executor = [max_workers |-> 0, queue |-> <<>>, idle |-> 0, done |-> {}]
    /\ workers = <<>>
    /\ account_farmers = [k \in {} |-> 0]
    /\ accesses = {}
    /\ initial_balance = [none |-> TRUE, value |-> 0]
    /\ loop = NewLoop

FarmNext ==
    \/ RunMultiAccountFarmingStart
    \/ SubmitAccount
    \/ CollectResult
    \/ \E t \in DOMAIN workers : TakeTask(t)
    \/ \E t \in DOMAIN workers, raises \in BOOLEAN : WorkerSetup(t, raises)
    \/ \E t \in DOMAIN workers, outcome \in {"ok", "exception", "interrupt"} :
         WorkerCycle(t, outcome)

SpecFarm == InitFarm /\ [][FarmNext]_vars

(***************************************************************************)
(* IntelligentPointsFarmer: the daily loss limit and the grid trading of   *)
(* one operation cycle.                                                    *)
(*                                                                         *)
(* A balance is a number of 1/100 U; an Optional[float] is a record with   *)
(* none = TRUE for None.                                                   *)
(***************************************************************************)
MaxDailyLoss == 1000        \* max_daily_loss: float = 10.0

NoAmount == [none |-> TRUE, value |-> 0]

Amount(v) == [none |-> FALSE, value |-> v]

\* what IntelligentPointsFarmer.get_account_balance returns: None, or the sum
\* of the totalQuantity fields it adds up
AccountBalances == {NoAmount, Amount(0), Amount(999), Amount(1000), Amount(2000)}

\* the check never reports the limit
CheckDailyLossLimitAdvisory(initial, current) ==
    [initial_balance |-> IF initial.none THEN current ELSE initial,
     ret |-> TRUE, log |-> <<BalanceReq>>]

\* current: what get_account_balance returns in this call
CheckDailyLossLimit(initial, current) ==
    IF initial.none
    THEN [initial_balance |-> current, ret |-> TRUE, log |-> <<BalanceReq>>]
    ELSE IF current.none \/ current.value = 0
    THEN [initial_balance |-> initial, ret |-> TRUE, log |-> <<BalanceReq>>]
    ELSE [initial_balance |-> initial,
          ret |-> ~(current.value - initial.value < -MaxDailyLoss),
          log |-> <<BalanceReq>>]

\* record_initial_balance
RecordInitialBalance(current) == current

\* in: the balance the check gets and the inputs of execute_grid_strategy
ExecuteDiversifiedTrading(self, initial, in) ==
    LET c == CheckDailyLossLimit(initial, in.current)
    IN  IF ~c.ret
        THEN [self |-> self, initial_balance |-> c.initial_balance,
              invoked |-> FALSE, log |-> c.log, ret |-> FALSE]
        ELSE LET r == ExecuteGridStrategy(self, in.grid)
             IN  [self |-> r.self, initial_balance |-> c.initial_balance,
                  invoked |-> TRUE, log |-> c.log \o r.log,
                  ret |-> r.ret.success]

SetStrategy(s) ==
    /\ grid_spacing' = s.grid_spacing
    /\ max_grid_levels' = s.max_grid_levels
    /\ current_price' = s.current_price
    /\ grid_prices' = s.grid_prices
    /\ grid_orders' = s.grid_orders
    /\ is_running' = s.is_running

RecordInitialBalanceCall ==
    /\ trace = NoCall
    /\ \E current \in AccountBalances :
         /\ initial_balance' = RecordInitialBalance(current)
         /\ trace' = [op |-> "record_initial_balance", in |-> current,
                      log |-> <<BalanceReq>>, ret |-> <<>>]
    /\ UNCHANGED <<grid_spacing, max_grid_levels, current_price, grid_prices,
                   grid_orders, is_running, farm_vars, loop>>

\* the grid inputs: every price and balance, no open order, no refused level
ExecuteDiversifiedTradingCall ==
    /\ trace = NoCall
    /\ \E current \in AccountBalances :
       \E t1 \in UpdateTickers(Self) :
       \E t2 \in InitTickers(Self, t1) :
       \E b \in InitBalances(t2) :
       \E in \in {[current |-> current,
                   grid |-> [ticker |-> t1,
                             init |-> [ticker |-> t2, balance |-> b,
                                       open |-> NoOpenOrders, fail |-> {}]]]} :
       \E r \in {ExecuteDiversifiedTrading(Self, initial_balance, in)} :
             /\ SetStrategy(r.self)
             /\ initial_balance' = r.initial_balance
             /\ trace' = [op |-> "execute_diversified_trading",
                          in |-> in, before |-> [self |-> Self,
                                                 initial_balance |-> initial_balance],
                          invoked |-> r.invoked, log |-> r.log, ret |-> r.ret]
    /\ UNCHANGED <<farm_vars, loop>>

TradingNext ==
    \/ RecordInitialBalanceCall
    \/ ExecuteDiversifiedTradingCall
    \/ ResultTaken

SpecTrading == InitGrid /\ [][TradingNext]_vars

(***************************************************************************)
(* IntelligentPointsFarmer.run_24h_farming.                                *)
(*                                                                         *)
(* loop.pc is where the thread is: "new" (not called), "setup" (lines      *)
(* 478-491), "cycle" (the try block of the while loop, lines 493-510),     *)
(* "handler" (the except Exception clause, lines 515-518), "stop" (line    *)
(* 521), "returned", "raised" (a KeyboardInterrupt has left the method).   *)
(* A KeyboardInterrupt may arrive at any point; it is not an Exception, so *)
(* only the clause of line 512 catches it.  loop.interrupted: one has      *)
(* arrived inside the while loop; loop.stopped: stop_strategy was called.  *)
(***************************************************************************)
DailyCycles == 2            \* config.daily_cycles

\* the test of the while statement (line 492)
LoopTest(cycle_count) == IF cycle_count < DailyCycles THEN "cycle" ELSE "stop"

Run24hFarmingCall ==
    /\ loop.pc = "new"
    /\ loop' = [loop EXCEPT !.pc = "setup"]
    /\ UNCHANGED <<grid_spacing, max_grid_levels, current_price, grid_prices,
                   grid_orders, is_running, trace, farm_vars, initial_balance>>

\* lines 478-491; outcome "exception": caught at line 526, the method returns
LoopSetup ==
    /\ loop.pc = "setup"
    /\ \E outcome \in {"ok", "exception", "interrupt"} :
         IF outcome = "ok"
         THEN /\ \E current \in AccountBalances :
                   initial_balance' = RecordInitialBalance(current)
              /\ loop' = [loop EXCEPT !.pc = LoopTest(0)]
         ELSE /\ loop' = [loop EXCEPT !.pc = IF outcome = "exception"
                                             THEN "returned" ELSE "raised"]
              /\ UNCHANGED initial_balance
    /\ UNCHANGED <<grid_spacing, max_grid_levels, current_price, grid_prices,
                   grid_orders, is_running, trace, farm_vars>>

\* execute_cycle with the grid trading operation drawn, and lines 496-510
LoopCycleTrading ==
    /\ loop.pc = "cycle"
    /\ \E current \in AccountBalances :
       \E t1 \in UpdateTickers(Self) :
       \E t2 \in InitTickers(Self, t1) :
       \E b \in InitBalances(t2) :
       \E in \in {[current |-> current,
                   grid |-> [ticker |-> t1,
                             init |-> [ticker |-> t2, balance |-> b,
                                       open |-> NoOpenOrders, fail |-> {}]]]} :
       \E r \in {ExecuteDiversifiedTrading(Self, initial_balance, in)} :
             /\ SetStrategy(r.self)
             /\ initial_balance' = r.initial_balance
    /\ loop' = [loop EXCEPT !.cycle_count = @ + 1,
                            !.pc = LoopTest(loop.cycle_count + 1)]
    /\ UNCHANGED <<trace, farm_vars>>

\* the try block with another operation drawn (the grid is not touched), or
\* cut short; outcome "exception": raised after line 496, "interrupt": a
\* KeyboardInterrupt, caught at line 512, break
LoopCycleOther ==
    /\ loop.pc = "cycle"
    /\ \E outcome \in {"ok", "exception", "interrupt"} :
         loop' = IF outcome = "interrupt"
                 THEN [loop EXCEPT !.pc = "stop", !.interrupted = TRUE]
                 ELSE [loop EXCEPT !.cycle_count = @ + 1,
                                   !.pc = IF outcome = "ok"
                                          THEN LoopTest(loop.cycle_count + 1)
                                          ELSE "handler"]
    /\ UNCHANGED <<grid_spacing, max_grid_levels, current_price, grid_prices,
                   grid_orders, is_running, trace, farm_vars, initial_balance>>

\* lines 516-518: the log line, time.sleep(10), continue; a KeyboardInterrupt
\* raised here is inside no try block but the outer one, whose clause is
\* except Exception
LoopHandler ==
    /\ loop.pc = "handler"
    /\ \E outcome \in {"ok", "interrupt"} :
         loop' = IF outcome = "ok"
                 THEN [loop EXCEPT !.pc = LoopTest(loop.cycle_count)]
                 ELSE [loop EXCEPT !.pc = "raised", !.interrupted = TRUE]
    /\ UNCHANGED <<grid_spacing, max_grid_levels, current_price, grid_prices,
                   grid_orders, is_running, trace, farm_vars, initial_balance>>

\* lines 520-524: stop_strategy, the final statistics, return
LoopStop ==
    /\ loop.pc = "stop"
    /\ \E open \in {NoOpenOrders} :
       \E r \in {StopStrategy(Self, open)} : SetStrategy(r.self)
    /\ loop' = [loop EXCEPT !.pc = "returned", !.stopped = TRUE]
    /\ UNCHANGED <<trace, farm_vars, initial_balance>>

LoopNext ==
    \/ Run24hFarmingCall
    \/ LoopSetup
    \/ LoopCycleTrading
    \/ LoopCycleOther
    \/ LoopHandler
    \/ LoopStop

SpecLoop == InitGrid /\ [][LoopNext]_vars

(***************************************************************************)
(* MultiAccountPointsFarmer.run_single_account_concurrent for one account, *)
(* with the grid strategy of the account's farmer.                         *)
(*                                                                         *)
(* loop.pc: "new" (not called), "cycle" (at the head of the while loop),   *)
(* "day_boundary" (at line 306 of a pass that completes a day), "returned".*)
(* The calls of execute_other_operations and update_pnl_status do not      *)
(* touch the grid strategy and are left out, as are the exits of the       *)
(* set-up by an exception.  trace holds the call of execute_grid_strategy  *)
(* made at the day boundary (line 319).                                    *)
(***************************************************************************)
\* lines 259-280: the farmer, record_initial_balance, the first
\* execute_grid_strategy
ConcurrentSetup ==
    /\ trace = NoCall
    /\ loop.pc = "new"
    /\ \E current \in AccountBalances :
         initial_balance' = RecordInitialBalance(current)
    /\ \E t2 \in TickerResults :
       \E b \in InitBalances(t2) :
       \E in \in {[ticker |-> NoTicker,
                   init |-> [ticker |-> t2, balance |-> b, open |-> NoOpenOrders,
                             fail |-> {}]]} :
       \E r \in {ExecuteGridStrategy(Self, in)} : SetStrategy(r.self)
    /\ loop' = [loop EXCEPT !.pc = "cycle"]
    /\ UNCHANGED <<trace, farm_vars>>

\* lines 284-303 of one pass: the call of line 288 and cycle_count += 1
ConcurrentCycle ==
    /\ trace = NoCall
    /\ loop.pc = "cycle"
    /\ \E t1 \in UpdateTickers(Self) :
       \E t2 \in InitTickers(Self, t1) :
       \E b \in InitBalances(t2) :
       \E in \in {[ticker |-> t1,
                   init |-> [ticker |-> t2, balance |-> b, open |-> NoOpenOrders,
                             fail |-> {}]]} :
       \E r \in {ExecuteGridStrategy(Self, in)} : SetStrategy(r.self)
    /\ loop' = [loop EXCEPT !.cycle_count = @ + 1,
                            !.pc = IF loop.cycle_count + 1 >= DailyCycles
                                   THEN "day_boundary" ELSE "cycle"]
    /\ UNCHANGED <<trace, farm_vars, initial_balance>>

\* lines 306-328 of a pass that completes a day: cycle_count back to 0 and
\* the call of line 319
ConcurrentCycleDayBoundary ==
    /\ trace = NoCall
    /\ loop.pc = "day_boundary"
    /\ \E u1 \in UpdateTickers(Self) :
       \E u2 \in InitTickers(Self, u1) :
       \E b2 \in InitBalances(u2), o2 \in InitOpenOrders(u2) :
       \E in2 \in {[ticker |-> u1,
                    init |-> [ticker |-> u2, balance |-> b2, open |-> o2,
                              fail |-> {}]]} :
       \E r2 \in {ExecuteGridStrategy(Self, in2)} :
             /\ SetStrategy(r2.self)
             /\ trace' = [op |-> "execute_grid_strategy", in |-> in2,
                          before |-> Self,
                          log |-> r2.log, levels |-> r2.levels, ret |-> r2.ret,
                          path |-> <<"day_boundary">> \o r2.path]
    /\ loop' = [loop EXCEPT !.cycle_count = 0, !.pc = "cycle"]
    /\ UNCHANGED <<farm_vars, initial_balance>>

\* a pass cut short: by an exception before cycle_count += 1 (lines 333-337:
\* sleep, continue) or by a KeyboardInterrupt anywhere in the try block
\* (break, stop_strategy, return)
ConcurrentCycleCut ==
    /\ trace = NoCall
    /\ loop.pc \in {"cycle", "day_boundary"}
    /\ \E outcome \in IF loop.pc = "cycle" THEN {"exception", "interrupt"}
                                          ELSE {"interrupt"} :
         IF outcome = "exception"
         THEN UNCHANGED <<grid_spacing, max_grid_levels, current_price,
                          grid_prices, grid_orders, is_running, loop>>
         ELSE /\ \E r \in {StopStrategy(Self, NoOpenOrders)} : SetStrategy(r.self)
              /\ loop' = [loop EXCEPT !.pc = "returned", !.interrupted = TRUE,
                                      !.stopped = TRUE]
    /\ UNCHANGED <<trace, farm_vars, initial_balance>>

DayNext ==
    \/ ConcurrentSetup
    \/ ConcurrentCycle
    \/ ConcurrentCycleDayBoundary
    \/ ConcurrentCycleCut
    \/ ResultTaken

SpecDay == InitGrid /\ [][DayNext]_vars

(***************************************************************************)
(* Properties of the grid calculator and of the grid order loop.           *)
(***************************************************************************)
IsCancel(r) == r.operation = "cancelOrder"

IsPlace(r) == r.operation = "orderExecute"

Last(s) == s[Len(s)]

CalcReturned == trace.op = "calculate_grid_prices"

\* the call went through initialize_grid's placement loop
PlacementRan == trace.op = "execute_grid_strategy" /\ Last(trace.path) = "placed"

StopReturned == trace.op = "stop_strategy"

\* C13 (as claimed): every request of the grid order loop, sent through the
\* farmer's request helper, carries the headers X-API-Key, X-Timestamp,
\* X-Window and X-Signature.
C13_EveryRequestSigned ==
    \A i \in 1..Len(trace.log) :
      {"X-API-Key", "X-Timestamp", "X-Window", "X-Signature"}
         \subseteq trace.log[i].headers

\* C1: calculate_grid_prices(P) returns exactly 2N values, strictly ascending
\* (so distinct), N of them below P and N above P, the i-th below P being
\* P*(1 - s*i) and the i-th above P being P*(1 + s*i), for a positive
\* reference price P and a positive spacing s.
C1_GridLevels ==
    CalcReturned =>
      LET P == trace.in
          N == max_grid_levels
          r == trace.ret
      IN  /\ Len(r) = 2 * N
          /\ \A i \in 1..(Len(r) - 1) : r[i] < r[i + 1]
          /\ Cardinality({i \in 1..Len(r) : r[i] < P}) = N
          /\ Cardinality({i \in 1..Len(r) : r[i] > P}) = N
          /\ \A i \in 1..N :
               /\ r[N + 1 - i] * GridSpacingDen = P * (GridSpacingDen - grid_spacing * i)
               /\ r[N + i] * GridSpacingDen = P * (GridSpacingDen + grid_spacing * i)

\* the worked example: 100.00 USDC, spacing 0.004, 5 levels
C1_Witness ==
    /\ CalcReturned
    /\ trace.in = 100000 /\ grid_spacing = 4 /\ max_grid_levels = 5
    /\ trace.ret = <<98000, 98400, 98800, 99200, 99600,
                     100400, 100800, 101200, 101600, 102000>>

\* C8: a call of calculate_grid_prices changes no field of the strategy, and
\* what it returns does not depend on the fields other than the spacing and
\* the level count: it is what a freshly constructed strategy with the same
\* spacing and level count returns for the same base price.
C8_Pure ==
    [][trace'.op = "calculate_grid_prices" =>
         /\ Self' = Self
         /\ trace'.ret =
              CalculateGridPrices(NewStrategy(grid_spacing, max_grid_levels),
                                  trace'.in).ret]_vars

\* the calculator called on a running strategy that holds orders
C8_Witness ==
    /\ CalcReturned
    /\ is_running /\ grid_orders # EmptyDict /\ grid_prices # <<>>
    /\ trace.in # current_price

\* C2 (as claimed): below the threshold update_grid issues no cancel and no
\* placement and reports success; at or above it, it runs the cancel-all and
\* re-place sequence against the price it fetched.
C2_UpdateThreshold ==
    [][(/\ is_running /\ current_price > 0
        /\ trace'.op = "execute_grid_strategy"
        /\ trace'.in.ticker.ok) =>
         LET new == trace'.in.ticker.lastPrice
             log == trace'.log
         IN  IF Abs(new - current_price) * 2 * GridSpacingDen
                  < grid_spacing * current_price
             THEN /\ \A i \in 1..Len(log) : ~IsCancel(log[i]) /\ ~IsPlace(log[i])
                  /\ trace'.ret.success
             ELSE /\ \E i \in 1..Len(log) : log[i] = OpenOrdersReq
                  /\ current_price' = new
                  /\ Len(grid_prices') = 2 * max_grid_levels
                  /\ \A k \in 1..Len(grid_prices') :
                       \E i \in 1..max_grid_levels :
                         \/ grid_prices'[k] * GridSpacingDen
                              = new * (GridSpacingDen - grid_spacing * i)
                         \/ grid_prices'[k] * GridSpacingDen
                              = new * (GridSpacingDen + grid_spacing * i)]_vars

\* C6: in initialize_grid every level of the grid is evaluated, in the order of
\* the grid; a level is attempted exactly when the remaining local balance
\* covers it (price x quantity in USDC for a buy, the quantity in SOL for a
\* sell), and the placement requests sent are those of the attempted levels,
\* in that order.
C6_SkipUnaffordable ==
    PlacementRan =>
      LET lv == trace.levels
          attempted == SelectSeq(lv, LAMBDA e : e.attempted)
          placements == SelectSeq(trace.log, IsPlace)
      IN  /\ Len(lv) = Len(grid_prices)
          /\ \A k \in 1..Len(lv) :
               /\ lv[k].price = grid_prices[k]
               /\ lv[k].attempted <=>
                    IF lv[k].buy
                    THEN lv[k].usdc_balance >= lv[k].price * InitialQuantity
                    ELSE lv[k].sol_balance >= InitialQuantity
          /\ Len(placements) = Len(attempted)
          /\ \A k \in 1..Len(attempted) :
               placements[k].price = RoundPrice(attempted[k].price)

\* a level is skipped and a later one is attempted
C6_Witness ==
    /\ PlacementRan
    /\ \E j, k \in 1..Len(trace.levels) :
         /\ j < k
         /\ ~trace.levels[j].attempted
         /\ trace.levels[k].attempted

\* C9: within one initialization every cancel request precedes every placement
\* request; the placement requests go out in ascending price order, a level
\* below the reference price as a buy and a level above it as a sell.
C9_CancelThenAscending ==
    PlacementRan =>
      LET log == trace.log
      IN  /\ \A i, j \in 1..Len(log) :
               (IsCancel(log[i]) \/ log[i] = OpenOrdersReq) /\ IsPlace(log[j])
                  => i < j
          /\ \A i, j \in 1..Len(log) :
               IsPlace(log[i]) /\ IsPlace(log[j]) /\ i < j
                  => log[i].price < log[j].price
          /\ \A i \in 1..Len(log) :
               IsPlace(log[i]) =>
                 \/ log[i].side = "buy" /\ log[i].price < current_price
                 \/ log[i].side = "sell" /\ log[i].price > current_price

\* cancels, then a buy and a sell
C9_Witness ==
    /\ PlacementRan
    /\ \E i, j, k \in 1..Len(trace.log) :
         /\ IsCancel(trace.log[i])
         /\ IsPlace(trace.log[j]) /\ trace.log[j].side = "buy"
         /\ IsPlace(trace.log[k]) /\ trace.log[k].side = "sell"

\* the orders the exchange reported to the call's open-orders query
Reported(open) == IF open.ok THEN open.orders ELSE <<>>

RequestReturned == trace.op = "_make_request"

\* C3: a call of _make_request sends at most max_retries HTTP requests, ends
\* without raising, returns None or the body of a 200 response it received,
\* and returns None when no attempt brought a 200 response with a JSON body.
C3_RetryBound ==
    RequestReturned =>
      /\ trace.http <= trace.in.max_retries
      /\ ~trace.raised
      /\ \/ trace.ret = None
         \/ \E i \in 1..Len(trace.in.outcomes) :
              /\ trace.in.outcomes[i] = Response(200, trace.ret.body)
              /\ i = Len(trace.seen)
      /\ (\A i \in 1..Len(trace.in.outcomes) :
            ~(trace.in.outcomes[i].kind = "response"
              /\ trace.in.outcomes[i].status = 200
              /\ trace.in.outcomes[i].json))
         => trace.ret = None

\* three allowed attempts, all sent, all failed: None after the third
C3_Witness ==
    /\ RequestReturned
    /\ trace.in.max_retries = 3
    /\ trace.http = 3
    /\ trace.in.outcomes = <<SendError, Response(400, "Request has expired"), SendError>>
    /\ trace.ret = None

\* a failed attempt of the kinds C11 names: a transport exception, or a
\* response whose status is not 2xx and that is not the 400 'expired' reply
OtherFailure(o) ==
    \/ o.kind = "send_error"
    \/ /\ o.kind = "response"
       /\ ~(o.status >= 200 /\ o.status <= 299)
       /\ ~(o.status = 400 /\ o.text = "Request has expired")

\* C11 (as claimed): after a transport exception, and after a response with a
\* non-2xx status other than the 400 'expired' reply, the helper goes on to
\* another attempt while one remains; it returns None after such a failure
\* only when that failure was the last attempt max_retries allows.
C11_RetryOnOtherFailure ==
    RequestReturned =>
      \A i \in 1..Len(trace.seen) :
        (OtherFailure(trace.seen[i]) /\ i < trace.in.max_retries)
           => Len(trace.seen) > i

SignedReturned == trace.op = "signed_request"

\* C12: each attempt of AssetManager._make_request signs the segments
\* instruction=<name>, then the k=v pairs of the params in ascending key
\* order (none when there are no params), then timestamp=<ms> and
\* window=<ms>, the timestamp being the clock reading of that attempt; the
\* X-Timestamp and X-Window headers of the attempt carry the two values of the
\* signed string, and X-Signature is the signature of that string.
C12_SigningString ==
    SignedReturned =>
      \A i \in 1..Len(trace.sent) :
        LET a == trace.sent[i]
            str == a.signing_string
            n == Len(trace.in.params)
        IN  /\ Len(str) = n + 3
            /\ str[1] = <<"instruction", trace.in.instruction>>
            /\ \A j \in 1..n : \E k \in 1..n : str[1 + j] = trace.in.params[k]
            /\ \A j \in 1..(n - 1) :
                 StrLess(KeyCodes[str[1 + j][1]], KeyCodes[str[2 + j][1]])
            /\ str[n + 2] = <<"timestamp", trace.in.times[a.attempt]>>
            /\ str[n + 3][1] = "window"
            /\ a.headers.x_timestamp = str[n + 2][2]
            /\ a.headers.x_window = str[n + 3][2]
            /\ a.headers.x_signature = Sign("private_key", str)

\* two attempts sent at different times, the params given in descending key
\* order
C12_Witness ==
    /\ SignedReturned
    /\ Len(trace.sent) >= 2
    /\ trace.sent[1].headers.x_timestamp # trace.sent[2].headers.x_timestamp
    /\ trace.in.params = <<<<"symbol", "SOL_USDC">>, <<"side", "Bid">>>>
    /\ trace.sent[2].signing_string[2] = <<"side", "Bid">>

(***************************************************************************)
(* Properties of buy_asset and sell_all_tokens_except_sol.                 *)
(***************************************************************************)
BuyReturned == trace.op = "buy_asset"

SellReturned == trace.op = "sell_all_tokens_except_sol"

\* C4 (as claimed): when the reply to the quoteQuantity order is an
\* insufficient-funds rejection, buy_asset makes exactly one more order call,
\* with a base quantity instead of quoteQuantity.
C4_InsufficientFundsFallback ==
    (/\ BuyReturned
     /\ Len(trace.log) >= 1
     /\ trace.log[1].last.kind = "response"
     /\ trace.log[1].last.text = "INSUFFICIENT_FUNDS") =>
      /\ Len(trace.log) = 2
      /\ trace.log[1].param = "quoteQuantity"
      /\ trace.log[2].param = "quantity"

\* C5: buy_asset makes no order call when the rounded quantity is below
\* min_asset_amount, and sell_all_tokens_except_sol sends no sell order for a
\* balance whose available quantity is below min_sell_amount.
C5_MinimumGate ==
    /\ (BuyReturned /\ trace.in.price > 0 /\ trace.quantity < MinAssetAmount)
          => trace.log = <<>>
    /\ SellReturned =>
         \A i \in 1..Len(trace.log) :
           trace.log[i].operation = "sellOrder" =>
             trace.in.reply.balances[trace.log[i].entry].available_quantity
                >= MinSellAmount

\* a buy whose rounded quantity is positive and below the minimum
C5_Witness ==
    /\ BuyReturned /\ trace.in.price > 0
    /\ trace.quantity > 0 /\ trace.quantity < MinAssetAmount
    /\ trace.log = <<>> /\ ~trace.ret

\* C7: the quantity buy_asset works with has at most 8 decimal places for a
\* BTC pair, at most 6 for an ETH pair and at most 4 for any other pair; it is
\* the quantity of the fallback order.
C7_QuantityRounding ==
    (BuyReturned /\ trace.in.price > 0) =>
      /\ trace.quantity % Pow10(8 - (IF trace.in.symbol = "BTC_USDC" THEN 8
                                     ELSE IF trace.in.symbol = "ETH_USDC" THEN 6
                                     ELSE 4)) = 0
      /\ \A i \in 1..Len(trace.log) :
           trace.log[i].param = "quantity" => trace.log[i].value = trace.quantity

\* a fallback order for a pair of the third class, the quotient amount / price
\* having more than 4 decimal places
C7_Witness ==
    /\ BuyReturned /\ trace.in.symbol = "SOL_USDC"
    /\ trace.in.amount_usd = 10000 /\ trace.in.price = 13000
    /\ trace.quantity = 76920000
    /\ Len(trace.log) = 2 /\ trace.log[2].value = 76920000

(***************************************************************************)
(* Properties of the multi-account run.                                    *)
(***************************************************************************)
\* C14 (as claimed): no exception makes a worker terminate: no worker returns
\* with the status 'error', a worker that has returned left its loop on an
\* interrupt.
C14_WorkerNeverTerminates ==
    \A t \in DOMAIN workers : workers[t].status # "error"

EnabledIds == {k \in DOMAIN accounts : accounts[k].enabled}

IdleThreads == {t \in DOMAIN workers : workers[t].pc = "idle"}

\* C15: the tasks submitted so far are the first enabled accounts of the
\* account list, in its order, each once, and no disabled account; when the
\* submission loop has ended there is one task for every enabled account; and
\* a task on the pool's queue never waits for a running worker: there is an
\* idle thread for every queued task.
C15_OneWorkerPerEnabledAccount ==
    /\ \A j \in 1..Len(main.submitted) :
         {k \in EnabledIds : k <= main.submitted[j]}
            = {main.submitted[i] : i \in 1..j}
    /\ \A i, j \in 1..Len(main.submitted) :
         i < j => main.submitted[i] < main.submitted[j]
    /\ main.pc \in {"wait", "returned"} => Range(main.submitted) = EnabledIds
    /\ Len(executor.queue) <= Cardinality(IdleThreads)

\* three accounts, the second disabled: both workers are in their loops at
\* once and no worker has finished
C15_Witness ==
    /\ Len(accounts) = 3 /\ ~accounts[2].enabled
    /\ main.pc = "wait" /\ main.submitted = <<1, 3>>
    /\ Len(workers) = 2
    /\ workers[1].pc = "loop" /\ workers[2].pc = "loop"
    /\ workers[1].account = 1 /\ workers[2].account = 3
    /\ executor.done = {}

WorkerAccess(a) == a.thread > 0

\* a and b touch the same data structure
SameStructure(a, b) ==
    /\ a.object = b.object
    /\ a.object \in {"farmer", "session", "grid_strategy"} => a.key = b.key

\* C16 (as claimed): no data structure is written by one worker thread and
\* read or written by another.
C16_NoSharedMutableState ==
    \A a, b \in accesses :
      (/\ WorkerAccess(a) /\ WorkerAccess(b) /\ a.thread # b.thread
       /\ SameStructure(a, b))
         => ~a.write /\ ~b.write

\* C16 (amended): no farmer, session or grid strategy is touched by two
\* worker threads; the structures written by more than one worker thread are
\* self.account_farmers, where each writes the entry of its own account and
\* none reads, and the random generator of the process.
C16_WorkersOwnTheirFarmers ==
    \A a, b \in accesses :
      (/\ WorkerAccess(a) /\ WorkerAccess(b) /\ a.thread # b.thread
       /\ SameStructure(a, b) /\ (a.write \/ b.write))
         => /\ a.object \in {"account_farmers", "random"}
            /\ a.object = "account_farmers"
                 => a.write /\ b.write /\ a.key # b.key

\* two worker threads have each stored a farmer and used the farmer of their
\* own account
C16_Witness ==
    /\ Access(1, "account_farmers", 1, TRUE) \in accesses
    /\ Access(2, "account_farmers", 2, TRUE) \in accesses
    /\ Access(1, "grid_strategy", 1, TRUE) \in accesses
    /\ Access(2, "grid_strategy", 2, TRUE) \in accesses
    /\ workers[1].pc = "loop" /\ workers[2].pc = "loop"

(***************************************************************************)
(* Properties of the loss limit.                                           *)
(***************************************************************************)
TradingReturned == trace.op = "execute_diversified_trading"

\* the loss since the recorded initial balance is above max_daily_loss
LimitReached ==
    /\ ~trace.before.initial_balance.none
    /\ ~trace.in.current.none /\ trace.in.current.value # 0
    /\ trace.before.initial_balance.value - trace.in.current.value > MaxDailyLoss

\* C17 (as claimed): execute_diversified_trading invokes execute_grid_strategy
\* whether or not the loss limit has been reached.
C17_LossLimitAdvisory == TradingReturned => trace.invoked

\* C17 (amended): execute_diversified_trading invokes execute_grid_strategy
\* exactly when the loss limit has not been reached; when it has, the call
\* returns False, sends nothing but the balance query and leaves the grid
\* strategy as it was.
C17_LossLimitGatesTrading ==
    TradingReturned =>
      /\ trace.invoked <=> ~LimitReached
      /\ ~trace.invoked =>
           /\ ~trace.ret
           /\ trace.log = <<BalanceReq>>
           /\ Self = trace.before.self

\* a running grid, the limit reached: the cycle does no grid trading
C17_Witness ==
    /\ TradingReturned
    /\ LimitReached
    /\ trace.before.self.is_running
    /\ ~trace.invoked /\ ~trace.ret

ReplenishReturned == trace.op = "check_and_replenish_assets"

\* the holding of an asset that a reply reports
RECURSIVE ReportedHolding(_, _, _)
ReportedHolding(reply, asset, i) ==
    IF ~reply.ok \/ i > Len(reply.list) THEN 0
    ELSE (IF reply.list[i].token = asset THEN reply.list[i].total ELSE 0)
           + ReportedHolding(reply, asset, i + 1)

\* spot plus collateral holdings times price
UsdValue(asset) ==
    (ReportedHolding(trace.in.spot, asset, 1) + ReportedHolding(trace.in.collateral, asset, 1))
      * PairPrice[asset]

\* the positions of the calls of buy_asset for an asset
CallsFor(asset) == {i \in 1..Len(trace.calls) : trace.calls[i].asset = asset}

\* C18 (as claimed): in one pass with the balance data at hand, each of SOL,
\* ETH and BTC whose price is known and whose value, spot plus collateral
\* holdings times price, is below its target gets exactly one call of
\* buy_asset, for 50 USDC (BTC, ETH) or 100 USDC (SOL); an asset at or above
\* its target gets none; USDC gets none; no asset is bought twice.
C18_ReplenishBuys ==
    (ReplenishReturned /\ trace.in.spot.ok) =>
      /\ \A asset \in DOMAIN PairPrice :
           trace.in.priced[asset] =>
             IF UsdValue(asset) < TargetValue[asset]
             THEN /\ Cardinality(CallsFor(asset)) = 1
                  /\ \A i \in CallsFor(asset) :
                       trace.calls[i].amount_usd
                         = (IF asset \in {"BTC", "ETH"} THEN 5000 ELSE 10000)
             ELSE CallsFor(asset) = {}
      /\ CallsFor("USDC") = {}
      /\ \A asset \in Range(TargetAssets) : Cardinality(CallsFor(asset)) <= 1

\* C20 (as claimed): when the balance request of get_current_assets fails,
\* check_and_replenish_assets returns failure and calls buy_asset for nothing.
C20_NoBuyWithoutBalances ==
    (ReplenishReturned /\ ~trace.in.spot.ok) =>
      /\ trace.calls = <<>>
      /\ ~trace.ret

\* the call ended where get_current_price yielded no positive price
NoPriceReturned ==
    trace'.op = "execute_grid_strategy" /\ Last(trace'.path) = "no_price"

\* the reference price at the call of the method that found no price:
\* update_grid has set it to the price it fetched (line 265) when it goes on
\* to initialize_grid
PriceBeforeCall ==
    IF trace'.path = <<"update_grid", "initialize_grid", "no_price">>
    THEN trace'.in.ticker.lastPrice
    ELSE current_price

\* C19 (as claimed): when get_current_price yields no positive price,
\* initialize_grid and update_grid return failure, issue no cancel and no
\* placement request, and leave the reference price, the grid levels and the
\* order map as they were before the call.
C19_NoPriceShortCircuit ==
    [][NoPriceReturned =>
         /\ ~trace'.ret.success
         /\ \A i \in 1..Len(trace'.log) :
              ~IsCancel(trace'.log[i]) /\ ~IsPlace(trace'.log[i])
         /\ current_price' = PriceBeforeCall
         /\ grid_prices' = grid_prices
         /\ grid_orders' = grid_orders]_vars

\* the sell orders of the call
SellOrders == {i \in 1..Len(trace.log) : trace.log[i].operation = "sellOrder"}

\* the balance reply lists every token once
ListedOnce ==
    \A i, j \in 1..Len(trace.in.reply.balances) :
      trace.in.reply.balances[i].symbol = trace.in.reply.balances[j].symbol
        => i = j

\* the tokens _sell_token was called for: each call starts with the markets
\* query
Attempted ==
    {trace.in.reply.balances[trace.log[i].entry].symbol :
       i \in {j \in 1..Len(trace.log) : trace.log[j].operation = "getMarkets"}}

LevelPlaced(e) == e.attempted /\ e.order_id # 0

\* the local cost of the placed buys among the first k levels
RECURSIVE BuyCost(_, _)
BuyCost(lv, k) ==
    IF k = 0 THEN 0
    ELSE BuyCost(lv, k - 1)
           + (IF lv[k].buy /\ LevelPlaced(lv[k])
              THEN lv[k].price * InitialQuantity ELSE 0)

\* the SOL of the placed sells among the first k levels
RECURSIVE SellCost(_, _)
SellCost(lv, k) ==
    IF k = 0 THEN 0
    ELSE SellCost(lv, k - 1)
           + (IF ~lv[k].buy /\ LevelPlaced(lv[k]) THEN InitialQuantity ELSE 0)

\* C22: within one initialize_grid run the price x initial_quantity of the
\* buys placed sum to no more than the USDC balance fetched at the start, the
\* initial_quantity of the sells placed to no more than the fetched SOL
\* balance, and the local balances a level sees are the fetched ones less
\* what the levels placed before it took: a failed placement takes nothing.
C22_NoOverCommit ==
    PlacementRan =>
      LET lv == trace.levels
          fetched == GetAccountBalance(trace.in.init.balance)
      IN  /\ BuyCost(lv, Len(lv)) <= fetched.USDC
          /\ SellCost(lv, Len(lv)) <= fetched.SOL
          /\ \A k \in 1..Len(lv) :
               /\ lv[k].usdc_balance = fetched.USDC - BuyCost(lv, k - 1)
               /\ lv[k].sol_balance = fetched.SOL - SellCost(lv, k - 1)

\* a buy is placed, a placement fails, and a later buy and a later sell are
\* skipped for lack of balance
C22_Witness ==
    /\ PlacementRan
    /\ \E i, j, k, m \in 1..Len(trace.levels) :
         /\ trace.levels[i].buy /\ LevelPlaced(trace.levels[i])
         /\ trace.levels[j].attempted /\ trace.levels[j].order_id = 0
         /\ i < k /\ trace.levels[k].buy /\ ~trace.levels[k].attempted
         /\ ~trace.levels[m].buy /\ ~trace.levels[m].attempted
         /\ \E n \in 1..(m - 1) :
              ~trace.levels[n].buy /\ LevelPlaced(trace.levels[n])

\* C23 (as claimed): when a KeyboardInterrupt has arrived inside the loop of
\* run_24h_farming, at whatever point of it, the method does not end without
\* having called stop_strategy.
C23_InterruptRunsCleanup ==
    (loop.interrupted /\ loop.pc \in {"returned", "raised"}) => loop.stopped

C25_OrderSides ==
    \A i \in 1..Len(trace.log) :
      IsPlace(trace.log[i]) => trace.log[i].side \in {"Bid", "Ask"}

\* C27: for every max_retries and every sequence of outcomes of the attempts
\* (a 200 with or without a JSON body, the 400 'Request has expired', another
\* status, a transport exception) the helpers of AssetManager,
\* IntelligentPointsFarmer and BackpackTokenManager send the same number of
\* HTTP requests and return the same result, which is what the call made
\* returned.
C27_SameRetryPolicy ==
    (RequestReturned /\ Range(trace.in.outcomes) \subseteq SentOutcomes) =>
      LET a == AssetManagerMakeRequest(trace.in.outcomes, trace.in.max_retries)
          f == FarmerMakeRequest(trace.in.outcomes, trace.in.max_retries)
          t == TokenManagerMakeRequest(trace.in.outcomes, trace.in.max_retries)
      IN  /\ a.http = f.http /\ f.http = t.http
          /\ a.result = f.result /\ f.result = t.result
          /\ a.raised = f.raised /\ f.raised = t.raised
          /\ trace.http = f.http /\ trace.ret = f.result

\* the 'expired' reply on the last attempt allowed, where AssetManager returns
\* inside the loop and the two others fall out of it
C27_Witness ==
    /\ RequestReturned
    /\ trace.client = "AssetManager"
    /\ trace.in.max_retries = 2
    /\ trace.in.outcomes = <<SendError, Response(400, "Request has expired")>>
    /\ trace.http = 2 /\ trace.ret = None

\* C30 (as claimed): the HTTP verb of every request of the grid loop is the
\* method argument its helper was called with; a cancel goes out as DELETE.
C30_VerbIsMethod ==
    \A i \in 1..Len(trace.log) :
      /\ trace.log[i].verb = trace.log[i].method
      /\ IsCancel(trace.log[i]) => trace.log[i].verb = "DELETE"

\* C29 (as claimed): check_daily_loss_limit, whose result decides whether
\* execute_diversified_trading goes on to the grid, returns False exactly when
\* an initial balance has been recorded and the fetched current balance, zero
\* included, is lower than it by more than max_daily_loss.
C29_LossLimitCheck ==
    TradingReturned =>
      (~trace.invoked <=>
         /\ ~trace.before.initial_balance.none
         /\ ~trace.in.current.none
         /\ trace.before.initial_balance.value - trace.in.current.value
              > MaxDailyLoss)

\* C28 (as claimed): after an initialization that failed on a missing price
\* (the strategy is marked running and has no reference price), a call of
\* execute_grid_strategy at which the price is available runs the
\* initialization sequence: cancel-all, then the placement loop.
C28_RecoversAfterNoPrice ==
    [][(/\ is_running /\ current_price = 0
        /\ trace'.op = "execute_grid_strategy"
        /\ trace'.in.ticker.ok /\ trace'.in.ticker.lastPrice > 0) =>
         /\ Last(trace'.path) = "placed"
         /\ \E i \in 1..Len(trace'.log) : trace'.log[i] = OpenOrdersReq]_vars

\* C26 (as claimed): the execute_grid_strategy call that the worker makes
\* when cycle_count reaches daily_cycles runs the full initialization,
\* cancel-all and the placement loop, whenever it gets a price, however far
\* the price has moved.
C26_DayBoundaryReinitializes ==
    (/\ trace.op = "execute_grid_strategy"
     /\ trace.path[1] = "day_boundary"
     /\ trace.in.ticker.ok) =>
      /\ Last(trace.path) = "placed"
      /\ \E i \in 1..Len(trace.log) : trace.log[i] = OpenOrdersReq

====
